---- MODULE Spec2Model ----
\* A model of scripts/cpio.py: the CPIO archive file (catalog of file entries
\* built by one sequential scan), the file entry data reader and the archive
\* file hasher that walks the segments of an initrd-like file.
EXTENDS Integers, Sequences, FiniteSets, TLC

\* ------------------------------------------------------------------------
\* Bounds of the model.
\* ------------------------------------------------------------------------

\* Largest number of records (sentinel included) in one generated archive.
MaxRecords == 3

\* Largest number of records in an archive that Open opens by its filename.
MaxDiskRecords == 1

\* Largest number of Open and OpenFileObject calls made on one archive file.
MaxOpens == 2

\* Largest number of records in the archives whose entries are read.
MaxEntryRecords == 2

\* Largest number of bytes cut from the end of a stream whose entries are
\* read, and of a stream that is opened without the end of its last record.
MaxCut == 1

\* Largest distance of an entry cursor before the start of the content
\* (except for the cursor that points before the start of the stream) and
\* past the end of the content.
MaxBefore == 2
MaxPastEnd == 2

\* Number of segments of a hashed file, and of file records of a segment.
MaxSegments == 2
MaxHasherRecords == 2

\* DataRange: the largest range offset, range size and read size, the
\* largest cursor seek is let reach, and the largest parent stream.
MaxRange == 2
MaxRangeCursor == 3
MaxParentSize == 3

\* Largest number of bytes of a stream that ends inside its first header.
MaxShort == 6

\* Records decoded one after the other: the largest offset of the first one,
\* the largest number of content bytes a header declares, and the largest
\* offset at which a record is decoded.
MaxStart == 3
MaxFileSize == 4
MaxDecodeOffset == 150

\* Textual fields decoded alone: the largest width of a field and the
\* largest integer that is formatted into one.
MaxFieldWidth == 3
MaxFieldValue == 4095

\* ------------------------------------------------------------------------
\* Byte strings. A byte string is a sequence of integers 0..255.
\* ------------------------------------------------------------------------

\* Python's s[:n].
Take(s, n) == SubSeq(s, 1, IF n < Len(s) THEN n ELSE Len(s))

\* Python's str.startswith.
StartsWith(s, prefix) ==
  /\ Len(prefix) <= Len(s)
  /\ SubSeq(s, 1, Len(prefix)) = prefix

\* Position of the first NUL byte of s, or Len(s) + 1 when there is none.
RECURSIVE FirstNul(_, _)
FirstNul(s, i) ==
  IF i > Len(s) THEN i
  ELSE IF s[i] = 0 THEN i
  ELSE FirstNul(s, i + 1)

\* path_string.partition(u'\x00')[0]
PartitionAtNul(s) == SubSeq(s, 1, FirstNul(s, 1) - 1)

\* Comparison of two strings, as Python compares str values.
RECURSIVE StrLess(_, _)
StrLess(a, b) ==
  IF Len(a) = 0 THEN Len(b) > 0
  ELSE IF Len(b) = 0 THEN FALSE
  ELSE IF a[1] # b[1] THEN a[1] < b[1]
  ELSE StrLess(Tail(a), Tail(b))

\* Absent values.
NoneStr == "None"
NoneInt == -1

\* ------------------------------------------------------------------------
\* Signatures.
\* ------------------------------------------------------------------------

CPIO_SIGNATURE_BINARY_BIG_ENDIAN == <<113, 199>>
CPIO_SIGNATURE_BINARY_LITTLE_ENDIAN == <<199, 113>>
CPIO_SIGNATURE_PORTABLE_ASCII == <<48, 55, 48, 55, 48, 55>>
CPIO_SIGNATURE_NEW_ASCII == <<48, 55, 48, 55, 48, 49>>
CPIO_SIGNATURE_NEW_ASCII_WITH_CHECKSUM == <<48, 55, 48, 55, 48, 50>>
BZIP_SIGNATURE == <<66, 90>>
GZIP_SIGNATURE == <<31, 139>>
XZ_SIGNATURE == <<253, 55, 122, 88, 90, 0>>

\* The sentinel path u'TRAILER!!!'.
TRAILER == <<84, 82, 65, 73, 76, 69, 82, 33, 33, 33>>

BinaryFormats == {"bin-big-endian", "bin-little-endian"}
NewAsciiFormats == {"crc", "newc"}
CpioFormats == BinaryFormats \cup {"odc"} \cup NewAsciiFormats

\* ------------------------------------------------------------------------
\* The file entry structures: field names with their widths in bytes.
\* ------------------------------------------------------------------------

CPIO_BINARY_FILE_ENTRY_STRUCT ==
  << <<"signature", 2>>, <<"device_number", 2>>, <<"inode_number", 2>>,
     <<"mode", 2>>, <<"user_identifier", 2>>, <<"group_identifier", 2>>,
     <<"number_of_links", 2>>, <<"special_device_number", 2>>,
     <<"modification_time_upper", 2>>, <<"modification_time_lower", 2>>,
     <<"path_string_size", 2>>, <<"file_size_upper", 2>>,
     <<"file_size_lower", 2>> >>

CPIO_PORTABLE_ASCII_FILE_ENTRY_STRUCT ==
  << <<"signature", 6>>, <<"device_number", 6>>, <<"inode_number", 6>>,
     <<"mode", 6>>, <<"user_identifier", 6>>, <<"group_identifier", 6>>,
     <<"number_of_links", 6>>, <<"special_device_number", 6>>,
     <<"modification_time", 11>>, <<"path_string_size", 6>>,
     <<"file_size", 11>> >>

CPIO_NEW_ASCII_FILE_ENTRY_STRUCT ==
  << <<"signature", 6>>, <<"inode_number", 8>>, <<"mode", 8>>,
     <<"user_identifier", 8>>, <<"group_identifier", 8>>,
     <<"number_of_links", 8>>, <<"modification_time", 8>>,
     <<"file_size", 8>>, <<"device_major_number", 8>>,
     <<"device_minor_number", 8>>, <<"special_device_major_number", 8>>,
     <<"special_device_minor_number", 8>>, <<"path_string_size", 8>>,
     <<"checksum", 8>> >>

\* The structure _ReadFileEntry selects for a format.
FileEntryStruct(file_format) ==
  IF file_format \in BinaryFormats THEN CPIO_BINARY_FILE_ENTRY_STRUCT
  ELSE IF file_format = "odc" THEN CPIO_PORTABLE_ASCII_FILE_ENTRY_STRUCT
  ELSE CPIO_NEW_ASCII_FILE_ENTRY_STRUCT

\* construct's Struct.sizeof(): the sum of the field widths.
RECURSIVE SizeOf(_)
SizeOf(struct) ==
  IF Len(struct) = 0 THEN 0 ELSE struct[1][2] + SizeOf(Tail(struct))

\* Width of one field of a structure.
FieldWidth(struct, name) ==
  LET i == CHOOSE k \in 1..Len(struct) : struct[k][1] = name IN struct[i][2]

\* ------------------------------------------------------------------------
\* Decoding of the textual fields: int(field, base).
\* ------------------------------------------------------------------------

\* Value of one ASCII digit character, or -1 when it is not a digit.
DigitValue(c) ==
  IF c >= 48 /\ c <= 57 THEN c - 48
  ELSE IF c >= 97 /\ c <= 122 THEN c - 87
  ELSE IF c >= 65 /\ c <= 90 THEN c - 55
  ELSE -1

RECURSIVE IntDigits(_, _, _)
IntDigits(s, base, acc) ==
  IF Len(s) = 0 THEN acc
  ELSE LET d == DigitValue(s[1]) IN
       IF d < 0 \/ d >= base THEN NoneInt
       ELSE IntDigits(Tail(s), base, acc * base + d)

\* The bytes int() takes for white space.
IsSpace(c) == c \in {9, 10, 11, 12, 13, 32}

\* s without its leading white space.
RECURSIVE LStrip(_)
LStrip(s) == IF Len(s) > 0 /\ IsSpace(s[1]) THEN LStrip(Tail(s)) ELSE s

\* s without its trailing white space.
RECURSIVE RStrip(_)
RStrip(s) ==
  IF Len(s) > 0 /\ IsSpace(s[Len(s)]) THEN RStrip(SubSeq(s, 1, Len(s) - 1))
  ELSE s

\* int() accepts the prefix of the base, "0x" or "0X" for 16 and "0o" or
\* "0O" for 8, before the digits.
HasPrefix(s, base) ==
  /\ Len(s) >= 2
  /\ s[1] = 48
  /\ \/ base = 16 /\ s[2] \in {120, 88}
     \/ base = 8 /\ s[2] \in {111, 79}

\* s without the single underscores int() accepts between two digits (none
\* first, none last, none after another one), or <<>> when one is misplaced.
WithoutUnderscores(s) ==
  IF /\ Len(s) > 0
     /\ s[1] # 95
     /\ s[Len(s)] # 95
     /\ \A i \in 1..(Len(s) - 1) : s[i] = 95 => s[i + 1] # 95
    THEN SelectSeq(s, LAMBDA c : c # 95)
  ELSE <<>>

\* The digits of a stripped, unsigned string: what follows the prefix, where
\* one underscore may come first.
DigitsOf(s, base) ==
  WithoutUnderscores(
    IF ~HasPrefix(s, base) THEN s
    ELSE IF Len(s) > 2 /\ s[3] = 95 THEN SubSeq(s, 4, Len(s))
    ELSE SubSeq(s, 3, Len(s)))

\* The outcome of int() on digits that followed a minus sign or not: ok
\* FALSE stands for the ValueError.
IntOfDigits(digits, base, negative) ==
  IF Len(digits) = 0 \/ IntDigits(digits, base, 0) = NoneInt
    THEN [ok |-> FALSE, value |-> 0]
  ELSE [ok |-> TRUE,
        value |-> IF negative THEN 0 - IntDigits(digits, base, 0)
                  ELSE IntDigits(digits, base, 0)]

\* int() on a stripped string: a sign may come first.
IntOfStripped(s, base) ==
  IF Len(s) > 0 /\ s[1] \in {43, 45}
    THEN IntOfDigits(DigitsOf(Tail(s), base), base, s[1] = 45)
  ELSE IntOfDigits(DigitsOf(s, base), base, FALSE)

\* Python's int(s, base) for base 8 or 16.
PythonInt(s, base) == IntOfStripped(RStrip(LStrip(s)), base)

\* int(s, base) as the decoder uses it; NoneInt stands for the ValueError
\* (no archive of the model holds a field that decodes to -1).
IntParse(s, base) ==
  IF PythonInt(s, base).ok THEN PythonInt(s, base).value ELSE NoneInt

\* ------------------------------------------------------------------------
\* Streams. A stream is described by the format of its headers, the list of
\* its records and the number of bytes cut from its end (a truncated file);
\* the bytes of the headers are derived from the description.
\* A record description gives the path bytes (p, an index of PathDatas) and
\* the number of content bytes (s).
\* ------------------------------------------------------------------------

\* The path bytes stored in the records: "a\0", "ab\0", the sentinel
\* "TRAILER!!!\0", "b\0", and "\0", "abc\0", "abcd\0".
PathDatas ==
  << <<97, 0>>, <<97, 98, 0>>, TRAILER \o <<0>>, <<98, 0>>,
     <<0>>, <<97, 98, 99, 0>>, <<97, 98, 99, 100, 0>> >>

\* The records of the generated archives: "a" with 3 content bytes, "ab"
\* with no content, and the sentinel.
RecordDescriptions ==
  {[p |-> 1, s |-> 3], [p |-> 2, s |-> 0], [p |-> 3, s |-> 0]}

RECURSIVE SeqsUpTo(_, _)
SeqsUpTo(S, n) ==
  IF n = 0 THEN {<<>>}
  ELSE LET shorter == SeqsUpTo(S, n - 1) IN
       shorter \cup {Append(q, x) : q \in {r \in shorter : Len(r) = n - 1}, x \in S}

\* No stream (a file object attribute that is None).
NoStream == [format |-> NoneStr, recs |-> <<>>, cut |-> 0]

\* A stream whose leading bytes are no CPIO signature.
JunkStream == [format |-> "junk", recs |-> <<>>, cut |-> 0]

\* The CPIO archives the model opens.
Archives ==
  [format : CpioFormats,
   recs : SeqsUpTo(RecordDescriptions, MaxRecords) \ {<<>>},
   cut : {0}]

\* A stream whose leading bytes are digits that differ from the ASCII
\* signatures in the last one.
NearStream == [format |-> "070703", recs |-> <<>>, cut |-> 0]

\* One digit character.
DigitChar(d) == IF d < 10 THEN 48 + d ELSE 87 + d

\* The fixed-width, zero-padded digit string of n.
RECURSIVE FormatDigits(_, _, _)
FormatDigits(n, base, width) ==
  IF width = 0 THEN <<>>
  ELSE Append(FormatDigits(n \div base, base, width - 1), DigitChar(n % base))

\* The header bytes and path bytes of record i of a stream, field by field.
RawRecord(stream, i) ==
  LET rc == stream.recs[i]
      path_string_data == PathDatas[rc.p]
      inode_number == i
      mode == 33188
      user_identifier == 1000 + i
      group_identifier == 100 + i
      modification_time == 65536 + i
      struct == FileEntryStruct(stream.format)
      F(name, value, base) ==
        IF value < 0
          THEN <<45>> \o FormatDigits(0 - value, base, FieldWidth(struct, name) - 1)
        ELSE FormatDigits(value, base, FieldWidth(struct, name))
  IN IF stream.format \in BinaryFormats THEN
       [header |-> [inode_number |-> inode_number,
                    mode |-> mode,
                    user_identifier |-> user_identifier,
                    group_identifier |-> group_identifier,
                    modification_time_upper |-> modification_time \div 65536,
                    modification_time_lower |-> modification_time % 65536,
                    path_string_size |-> Len(path_string_data),
                    file_size_upper |-> rc.s \div 65536,
                    file_size_lower |-> rc.s % 65536],
        path_string_data |-> path_string_data]
     ELSE LET base == IF stream.format = "odc" THEN 8 ELSE 16 IN
       [header |-> [inode_number |-> F("inode_number", inode_number, base),
                    mode |-> F("mode", mode, base),
                    user_identifier |-> F("user_identifier", user_identifier, base),
                    group_identifier |-> F("group_identifier", group_identifier, base),
                    modification_time |-> F("modification_time", modification_time, base),
                    path_string_size |-> F("path_string_size", Len(path_string_data), base),
                    file_size |-> F("file_size", rc.s, base)],
        path_string_data |-> path_string_data]

\* The first 6 bytes of a stream from which nothing is cut.
StreamLead(stream) ==
  IF stream.format = "bin-big-endian"
    THEN CPIO_SIGNATURE_BINARY_BIG_ENDIAN \o <<0, 0, 0, 1>>
  ELSE IF stream.format = "bin-little-endian"
    THEN CPIO_SIGNATURE_BINARY_LITTLE_ENDIAN \o <<0, 0, 1, 0>>
  ELSE IF stream.format = "odc" THEN CPIO_SIGNATURE_PORTABLE_ASCII
  ELSE IF stream.format = "newc" THEN CPIO_SIGNATURE_NEW_ASCII
  ELSE IF stream.format = "crc" THEN CPIO_SIGNATURE_NEW_ASCII_WITH_CHECKSUM
  ELSE IF stream.format = "070703" THEN <<48, 55, 48, 55, 48, 51>>
  ELSE <<74, 85, 78, 75, 33, 33>>

\* ------------------------------------------------------------------------
\* CPIOArchiveFile._ReadFileEntry
\* ------------------------------------------------------------------------

\* AlignmentPadding without the complement to the modulus.
AlignmentPadding_remainder(file_offset, modulus) == file_offset % modulus

\* padding_size = file_offset % modulus; if > 0: modulus - padding_size
AlignmentPadding(file_offset, modulus) ==
  LET padding_size == file_offset % modulus IN
  IF padding_size > 0 THEN modulus - padding_size ELSE 0

\* The path alignment padding of a format at a file offset.
PathPadding(file_format, file_offset) ==
  IF file_format \in BinaryFormats THEN AlignmentPadding(file_offset, 2)
  ELSE IF file_format = "odc" THEN 0
  ELSE AlignmentPadding(file_offset, 4)

\* The exception a failed read or decode raises.
ReadFailure == [ok |-> FALSE]

\* The numeric fields of a header, decoded as the format requires.
DecodeHeader(file_format, header) ==
  IF file_format \in BinaryFormats THEN
    [inode_number |-> header.inode_number,
     mode |-> header.mode,
     user_identifier |-> header.user_identifier,
     group_identifier |-> header.group_identifier,
     modification_time |->
       header.modification_time_upper * 65536 + header.modification_time_lower,
     path_string_size |-> header.path_string_size,
     file_size |-> header.file_size_upper * 65536 + header.file_size_lower]
  ELSE LET base == IF file_format = "odc" THEN 8 ELSE 16 IN
    [inode_number |-> IntParse(header.inode_number, base),
     mode |-> IntParse(header.mode, base),
     user_identifier |-> IntParse(header.user_identifier, base),
     group_identifier |-> IntParse(header.group_identifier, base),
     modification_time |-> IntParse(header.modification_time, base),
     path_string_size |-> IntParse(header.path_string_size, base),
     file_size |-> IntParse(header.file_size, base)]

\* AssembleFileEntry without the padding that follows the data.
AssembleFileEntry_no_trailing(file_format, file_entry_struct_size, fields, path_string, padding_size, data_offset) ==
  [ok |-> TRUE,
   current_offset |-> 0,
   data_offset |-> data_offset,
   data_size |-> fields.file_size,
   group_identifier |-> fields.group_identifier,
   inode_number |-> fields.inode_number,
   modification_time |-> fields.modification_time,
   path |-> path_string,
   mode |-> fields.mode,
   size |-> file_entry_struct_size + fields.path_string_size + padding_size
              + fields.file_size,
   user_identifier |-> fields.user_identifier]

\* The file entry _ReadFileEntry assembles once the path padding is known:
\* data offset and size, metadata, and the total size of the record, which
\* for the new ASCII formats includes the padding that follows the data.
AssembleFileEntry(file_format, file_entry_struct_size, fields, path_string, padding_size, data_offset) ==
  [ok |-> TRUE,
   current_offset |-> 0,
   data_offset |-> data_offset,
   data_size |-> fields.file_size,
   group_identifier |-> fields.group_identifier,
   inode_number |-> fields.inode_number,
   modification_time |-> fields.modification_time,
   path |-> path_string,
   mode |-> fields.mode,
   size |-> file_entry_struct_size + fields.path_string_size + padding_size
              + fields.file_size
              + (IF file_format \in NewAsciiFormats
                   THEN AlignmentPadding(data_offset + fields.file_size, 4)
                   ELSE 0),
   user_identifier |-> fields.user_identifier]

\* The part of _ReadFileEntry that follows the decoding of the header
\* fields: read the path, cut it at the first NUL, pad. offset_after_path is
\* file_offset once the header and the path have been read.
ReadPathAndAssemble(file_format, file_entry_struct_size, fields, path_string_data, offset_after_path) ==
  IF \E name \in DOMAIN fields : fields[name] = NoneInt THEN ReadFailure
  ELSE AssembleFileEntry(file_format, file_entry_struct_size, fields,
         PartitionAtNul(Take(path_string_data, fields.path_string_size)),
         PathPadding(file_format, offset_after_path),
         offset_after_path + PathPadding(file_format, offset_after_path))

\* The header fields decoded, file_offset advanced past the header.
ParseDecoded(file_format, file_offset, file_entry_struct_size, fields, path_string_data) ==
  ReadPathAndAssemble(file_format, file_entry_struct_size, fields,
    path_string_data,
    file_offset + file_entry_struct_size
      + (IF fields.path_string_size = NoneInt THEN 0
         ELSE fields.path_string_size))

\* The file entry decoded from the header and path bytes found at
\* file_offset, or ReadFailure when a field does not decode.
ParseFileEntry(file_format, file_offset, raw) ==
  ParseDecoded(file_format, file_offset, SizeOf(FileEntryStruct(file_format)),
    DecodeHeader(file_format, raw.header), raw.path_string_data)

\* Offset of the byte that follows record i of a stream, which starts at
\* start; a record whose textual size field holds a minus sign has no content
\* bytes and ends after its path padding.
RecordEnd(stream, i, start) ==
  IF stream.recs[i].s < 0
    THEN ParseFileEntry(stream.format, start, RawRecord(stream, i)).data_offset
  ELSE start + ParseFileEntry(stream.format, start, RawRecord(stream, i)).size

\* Offset of the first byte of record i of a stream (i may be one more than
\* the number of records: the offset following the last record).
RECURSIVE RecordStart(_, _)
RecordStart(stream, i) ==
  IF i = 1 THEN 0
  ELSE RecordEnd(stream, i - 1, RecordStart(stream, i - 1))

\* Number of bytes of a stream.
StreamSize(stream) == RecordStart(stream, Len(stream.recs) + 1) - stream.cut

\* signature_data = file_object.read(6): the leading bytes of the stream, as
\* many as it has (a stream described without records is its 6 leading
\* bytes; one from which nothing is cut holds a whole header).
SignatureData(stream) ==
  IF stream.recs = <<>> \/ stream.cut = 0 THEN StreamLead(stream)
  ELSE Take(StreamLead(stream), StreamSize(stream))

\* The stream that keeps the first n bytes of an archive.
CutTo(stream, n) == [stream EXCEPT !.cut = StreamSize(stream) - n]

\* The streams that end inside their first header: one per format and number
\* of bytes.
TruncatedStreams ==
  {CutTo([format |-> f, recs |-> <<[p |-> 2, s |-> 0]>>, cut |-> 0], n) :
     f \in CpioFormats, n \in 0..MaxShort}

\* The streams that hold one record whose last bytes are cut: the header
\* declares 3 content bytes and fewer remain.
CutStreams ==
  [format : CpioFormats, recs : {<<[p |-> 1, s |-> 3]>>}, cut : 1..MaxCut]

\* The streams that hold the one record "a" whose size field holds a minus
\* sign: header and path take 78 bytes (odc) and 112 bytes (newc), and the
\* field declares as many bytes less than none.
SignedStreams ==
  {[format |-> "odc", recs |-> <<[p |-> 1, s |-> -78]>>, cut |-> 0],
   [format |-> "newc", recs |-> <<[p |-> 1, s |-> -112]>>, cut |-> 0]}

\* The streams OpenFileObject is given.
Streams ==
  Archives \cup TruncatedStreams \cup CutStreams \cup SignedStreams
    \cup {JunkStream, NearStream}

\* The files Open can name.
FilesOnDisk ==
  {stream \in Archives : Len(stream.recs) <= MaxDiskRecords}
    \cup TruncatedStreams \cup SignedStreams \cup {JunkStream, NearStream}

\* Index of the record whose header starts at file_offset, 0 when there is
\* none (the offset is at or past the end of the stream, or inside a record);
\* found by walking the records from record i, which starts at start.
RECURSIVE RecordFrom(_, _, _, _)
RecordFrom(stream, file_offset, i, start) ==
  IF i > Len(stream.recs) \/ start > file_offset THEN 0
  ELSE IF start = file_offset THEN i
  ELSE RecordFrom(stream, file_offset, i + 1, RecordEnd(stream, i, start))

RecordAt(stream, file_offset) == RecordFrom(stream, file_offset, 1, 0)

\* The header and path bytes a read at the start of record i returns when
\* available bytes remain in the stream: a short header fails to parse, a
\* short path is returned as it is.
ReadRecord(file_format, file_offset, raw, available) ==
  IF available < SizeOf(FileEntryStruct(file_format)) THEN ReadFailure
  ELSE ParseFileEntry(file_format, file_offset,
         [header |-> raw.header,
          path_string_data |->
            Take(raw.path_string_data,
                 available - SizeOf(FileEntryStruct(file_format)))])

\* The entry found at record i (0: no header there).
ReadRecordAt(stream, file_format, file_offset, i) ==
  IF i = 0 THEN ReadFailure
  ELSE ReadRecord(file_format, file_offset, RawRecord(stream, i),
         StreamSize(stream) - file_offset)

\* _ReadFileEntry(file_offset) on a stream: seek, read the header, parse it.
ReadFileEntry(stream, file_format, file_offset) ==
  ReadRecordAt(stream, file_format, file_offset, RecordAt(stream, file_offset))

\* ------------------------------------------------------------------------
\* CPIOArchiveFile: the catalog of file entries.
\* ------------------------------------------------------------------------

\* self._file_entries: None, or a dict from path to file entry. The dict
\* keeps its keys in insertion order; items lists its values in that order.
NoneDict == [none |-> TRUE, items |-> <<>>]
EmptyDict == [none |-> FALSE, items |-> <<>>]

\* path in self._file_entries
PathInItems(items, path) == \E i \in 1..Len(items) : items[i].path = path

\* CatalogInsert without the test for a path already present: a later record
\* replaces the entry of its path.
CatalogInsert_overwrite(items, file_entry) ==
  IF PathInItems(items, file_entry.path)
    THEN [i \in 1..Len(items) |->
            IF items[i].path = file_entry.path THEN file_entry ELSE items[i]]
  ELSE Append(items, file_entry)

\* if file_entry.path in self._file_entries: continue
\* self._file_entries[file_entry.path] = file_entry
CatalogInsert(items, file_entry) ==
  IF PathInItems(items, file_entry.path) THEN items
  ELSE Append(items, file_entry)

\* IsSentinel comparing with the path bytes as stored, NUL included.
IsSentinel_with_nul(path) == path = TRAILER \o <<0>>

\* if file_entry.path == u'TRAILER!!!': break
IsSentinel(path) == path = TRAILER

\* while file_offset < self._file_size or self._file_size == 0
ScanContinues(file_offset, archive_file_size) ==
  file_offset < archive_file_size \/ archive_file_size = 0

\* The state of a scan: the local file_offset, the dict under construction,
\* the list of the entries _ReadFileEntry returned so far, and whether the
\* loop is running, has ended or has raised.
ScanStart == [status |-> "scanning", file_offset |-> 0, items |-> <<>>,
              scanned |-> <<>>]

\* The rest of one iteration of the loop once _ReadFileEntry has returned
\* file_entry (or raised).
ReadFileEntriesWith(st, file_entry) ==
  IF ~file_entry.ok THEN [st EXCEPT !.status = "error"]
  ELSE [status |-> IF IsSentinel(file_entry.path) THEN "done" ELSE "scanning",
        file_offset |-> st.file_offset + file_entry.size,
        items |-> IF IsSentinel(file_entry.path) THEN st.items
                  ELSE CatalogInsert(st.items, file_entry),
        scanned |-> Append(st.scanned, file_entry)]

\* One evaluation of the loop of _ReadFileEntries: the loop condition and,
\* when it holds, one iteration.
ReadFileEntriesIter(stream, file_format, archive_file_size, st) ==
  IF ~ScanContinues(st.file_offset, archive_file_size)
    THEN [st EXCEPT !.status = "done"]
  ELSE ReadFileEntriesWith(st,
         ReadFileEntry(stream, file_format, st.file_offset))

\* _ReadFileEntries run to its end, or for one record more than the largest
\* archive has when it does not end.
RECURSIVE ReadFileEntries(_, _, _, _)
ReadFileEntries(stream, file_format, archive_file_size, st) ==
  IF st.status # "scanning" \/ Len(st.scanned) > MaxRecords THEN st
  ELSE ReadFileEntries(stream, file_format, archive_file_size,
         ReadFileEntriesIter(stream, file_format, archive_file_size, st))

\* SignatureFormat accepting signature data of 2 bytes.
SignatureFormat_two_bytes(signature_data) ==
  IF Len(signature_data) >= 2 THEN
    IF Take(signature_data, 2) = CPIO_SIGNATURE_BINARY_BIG_ENDIAN
      THEN "bin-big-endian"
    ELSE IF Take(signature_data, 2) = CPIO_SIGNATURE_BINARY_LITTLE_ENDIAN
      THEN "bin-little-endian"
    ELSE IF signature_data = CPIO_SIGNATURE_PORTABLE_ASCII THEN "odc"
    ELSE IF signature_data = CPIO_SIGNATURE_NEW_ASCII THEN "newc"
    ELSE IF signature_data = CPIO_SIGNATURE_NEW_ASCII_WITH_CHECKSUM THEN "crc"
    ELSE NoneStr
  ELSE NoneStr

\* The format OpenFileObject detects from the signature data.
SignatureFormat(signature_data) ==
  IF Len(signature_data) > 2 THEN
    IF Take(signature_data, 2) = CPIO_SIGNATURE_BINARY_BIG_ENDIAN
      THEN "bin-big-endian"
    ELSE IF Take(signature_data, 2) = CPIO_SIGNATURE_BINARY_LITTLE_ENDIAN
      THEN "bin-little-endian"
    ELSE IF signature_data = CPIO_SIGNATURE_PORTABLE_ASCII THEN "odc"
    ELSE IF signature_data = CPIO_SIGNATURE_NEW_ASCII THEN "newc"
    ELSE IF signature_data = CPIO_SIGNATURE_NEW_ASCII_WITH_CHECKSUM THEN "crc"
    ELSE NoneStr
  ELSE NoneStr

VARIABLES
  entry_stream,                     \* the stream the file entries read from
  parent_size,                      \* its number of bytes
  parent_offset,                    \* its position, which every user of it moves
  readers,                          \* the file entries (CPIOArchiveFileEntry) of its catalog
  seeked,                           \* per file entry: seek was called on it
  last                              \* the last call on a file entry and its outcome

entryVars == <<entry_stream, parent_size, parent_offset, readers, seeked, last>>

VARIABLES
  self_file_entries,                \* CPIOArchiveFile._file_entries
  self_file_object,                 \* CPIOArchiveFile._file_object
  self_file_object_opened_in_object,
  self_file_size,                   \* CPIOArchiveFile._file_size
  self_file_format,                 \* CPIOArchiveFile.file_format
  self_size,                        \* CPIOArchiveFile.size
  pc,                               \* "idle", or "scanning" inside _ReadFileEntries
  caller,                           \* the public method that started the scan
  scan_file_offset,                 \* file_offset of _ReadFileEntries
  scanned,                          \* the entries _ReadFileEntry returned in this scan
  result,                           \* outcome of the last call: "none", "running", "ok", "error"
  opens,                            \* number of Open and OpenFileObject calls so far
  closed_by_handle,                 \* the handle called close() on the stream given
  given,                            \* the file object of the last open of a handle without a stream
  opener                            \* the method that was given it: "Open" or "OpenFileObject"

archiveVars ==
  <<self_file_entries, self_file_object, self_file_object_opened_in_object,
    self_file_size, self_file_format, self_size, pc, caller, scan_file_offset,
    scanned, result, opens, closed_by_handle, given, opener>>

VARIABLES
  hash_file,                        \* the segments of the file at CPIOArchiveFileHasher._path
  hash_file_size,                   \* file_size of HashFileEntries
  hash_file_offset,                 \* file_offset of HashFileEntries
  hash_file_type,                   \* file_type of HashFileEntries
  hash_archive,                     \* cpio_archive_file of HashFileEntries
  hash_entries,                     \* the file entries the for loop has still to visit
  hash_pc,                          \* position of HashFileEntries
  hash_raised,                      \* the exception HashFileEntries ended with
  output,                           \* the lines written to output_writer
  peeks                             \* the offsets at which signature_data was read

hasherVars ==
  <<hash_file, hash_file_size, hash_file_offset, hash_file_type, hash_archive,
    hash_entries, hash_pc, hash_raised, output, peeks>>

VARIABLES
  dr_range_offset,                  \* DataRange._range_offset
  dr_range_size,                    \* DataRange._range_size
  dr_current_offset,                \* DataRange._current_offset
  dr_file_size,                     \* number of bytes of DataRange._file_object
  dr_file_offset,                   \* position of DataRange._file_object
  dr_last                           \* the last call on the DataRange and its outcome

rangeVars ==
  <<dr_range_offset, dr_range_size, dr_current_offset, dr_file_size,
    dr_file_offset, dr_last>>

\* CPIOArchiveFile.__init__
ArchiveInit ==
  /\ self_file_entries = NoneDict
  /\ self_file_object = NoStream
  /\ self_file_object_opened_in_object = FALSE
  /\ self_file_size = 0
  /\ self_file_format = NoneStr
  /\ self_size = NoneInt
  /\ pc = "idle"
  /\ caller = NoneStr
  /\ scan_file_offset = 0
  /\ scanned = <<>>
  /\ result = "none"
  /\ opens = 0
  /\ closed_by_handle = FALSE
  /\ given = NoStream
  /\ opener = NoneStr

\* No call has been made on a file entry.
NoCall == [op |-> "none", e |-> 0, size |-> 0, before |-> 0, returned |-> 0,
           from |-> 0, raised |-> FALSE]

\* No file entry is being read.
EntryIdle ==
  /\ entry_stream = NoStream
  /\ parent_size = 0
  /\ parent_offset = 0
  /\ readers = <<>>
  /\ seeked = <<>>
  /\ last = NoCall

\* cpio_archive_file of HashFileEntries when there is none: the segment of
\* the file its catalog was read from, the number of bytes of the stream it
\* reads, its file entries and its size attribute.
NoArchive == [segment |-> 0, stream_size |-> 0, items |-> <<>>,
              size |-> NoneInt]

\* HashFileEntries is not running.
HasherIdle ==
  /\ hash_file = <<>>
  /\ hash_file_size = 0
  /\ hash_file_offset = 0
  /\ hash_file_type = NoneStr
  /\ hash_archive = NoArchive
  /\ hash_entries = <<>>
  /\ hash_pc = "idle"
  /\ hash_raised = NoneStr
  /\ output = <<>>
  /\ peeks = <<>>

\* No call has been made on a DataRange. a and b are the arguments of a
\* call, returned the number of bytes a read returned and from the position
\* of the parent stream at which it fetched them.
NoRangeCall == [op |-> "none", raised |-> FALSE, a |-> 0, b |-> 0,
                returned |-> 0, from |-> 0]

\* DataRange.__init__ on a parent stream of no bytes, and no call.
RangeIdle ==
  /\ dr_range_offset = 0
  /\ dr_range_size = 0
  /\ dr_current_offset = 0
  /\ dr_file_size = 0
  /\ dr_file_offset = 0
  /\ dr_last = NoRangeCall

VARIABLES
  dec_format,                       \* CPIOArchiveFile.file_format
  dec_file_offset,                  \* file_offset of _ReadFileEntries
  dec_last                          \* the last record decoded and its file entry

decodeVars == <<dec_format, dec_file_offset, dec_last>>

\* No record has been decoded.
NoDecode == [start |-> 0, path_string_size |-> 0, file_size |-> 0,
             entry |-> ReadFailure]

\* No record is being decoded.
DecodeIdle ==
  /\ dec_format = NoneStr
  /\ dec_file_offset = 0
  /\ dec_last = NoDecode

VARIABLES
  fld_base,                         \* the base of the format: 8 (odc) or 16 (newc, crc)
  fld_input,                        \* a field of a header, and the integer written in it
  fld_result                        \* what int() made of the field

fieldVars == <<fld_base, fld_input, fld_result>>

\* No field is being decoded.
FieldIdle ==
  /\ fld_base = 0
  /\ fld_input = [n |-> NoneInt, string |-> <<>>]
  /\ fld_result = [done |-> FALSE, ok |-> FALSE, value |-> 0]

\* The body of OpenFileObject up to the call of _ReadFileEntries.
OpenFileObjectBody(file_object, who) ==
  /\ opens < MaxOpens
  /\ opens' = opens + 1
  /\ IF self_file_object # NoStream THEN
       \* raise IOError(u'Already open')
       /\ result' = "error"
       /\ UNCHANGED <<self_file_entries, self_file_object,
                      self_file_object_opened_in_object, self_file_size,
                      self_file_format, self_size, pc, caller, scan_file_offset,
                      scanned, closed_by_handle, given, opener>>
     ELSE LET detected == SignatureFormat(SignatureData(file_object)) IN
       /\ given' = file_object
       /\ opener' = who
       /\ closed_by_handle' = FALSE
       /\ self_file_format' = detected
       /\ IF detected = NoneStr THEN
            \* raise IOError(u'Unsupported CPIO format.')
            /\ result' = "error"
            /\ UNCHANGED <<self_file_entries, self_file_object, pc, caller,
                           scan_file_offset, scanned>>
          ELSE
            /\ self_file_entries' = EmptyDict
            /\ self_file_object' = file_object
            /\ pc' = "scanning"
            /\ caller' = who
            /\ scan_file_offset' = 0
            /\ scanned' = <<>>
            /\ result' = "running"
       /\ UNCHANGED <<self_file_object_opened_in_object, self_file_size, self_size>>

\* CPIOArchiveFile.OpenFileObject(file_object)
OpenFileObject ==
  /\ pc = "idle"
  /\ \E file_object \in Streams : OpenFileObjectBody(file_object, "OpenFileObject")
  /\ UNCHANGED entryVars
  /\ UNCHANGED hasherVars
  /\ UNCHANGED <<rangeVars, decodeVars, fieldVars>>

\* CPIOArchiveFile.Open(filename): stat and open the file, then
\* OpenFileObject; the two assignments after it run when the scan returns.
Open ==
  /\ pc = "idle"
  /\ \E file_object \in FilesOnDisk : OpenFileObjectBody(file_object, "Open")
  /\ UNCHANGED entryVars
  /\ UNCHANGED hasherVars
  /\ UNCHANGED <<rangeVars, decodeVars, fieldVars>>

\* The assignments that follow one evaluation of the loop which left the
\* scan in state st: when the loop has ended, the rest of _ReadFileEntries,
\* OpenFileObject and Open; when it has raised, nothing more.
ScanAssign(st) ==
  /\ self_file_entries' = [none |-> FALSE, items |-> st.items]
  /\ scanned' = st.scanned
  /\ IF st.status = "scanning" THEN
       /\ scan_file_offset' = st.file_offset
       /\ UNCHANGED <<pc, caller, result, self_size, self_file_size,
                      self_file_object_opened_in_object>>
     ELSE IF st.status = "error" THEN
       /\ pc' = "idle"
       /\ caller' = NoneStr
       /\ scan_file_offset' = 0
       /\ result' = "error"
       /\ UNCHANGED <<self_size, self_file_size,
                      self_file_object_opened_in_object>>
     ELSE
       /\ pc' = "idle"
       /\ caller' = NoneStr
       /\ scan_file_offset' = 0
       /\ result' = "ok"
       /\ self_size' = st.file_offset
       /\ IF caller = "Open" THEN
            /\ self_file_size' = StreamSize(self_file_object)
            /\ self_file_object_opened_in_object' = TRUE
          ELSE UNCHANGED <<self_file_size, self_file_object_opened_in_object>>

\* One evaluation of the loop of _ReadFileEntries and what follows it; the
\* model follows a scan for one record more than the largest archive has.
ReadFileEntriesStep ==
  /\ pc = "scanning"
  /\ Len(scanned) <= MaxRecords
  /\ ScanAssign(ReadFileEntriesIter(self_file_object, self_file_format,
       self_file_size,
       [status |-> "scanning", file_offset |-> scan_file_offset,
        items |-> self_file_entries.items, scanned |-> scanned]))
  /\ UNCHANGED <<self_file_object, self_file_format, opens, closed_by_handle,
                 given, opener>>
  /\ UNCHANGED entryVars
  /\ UNCHANGED hasherVars
  /\ UNCHANGED <<rangeVars, decodeVars, fieldVars>>

\* CPIOArchiveFile.Close()
Close ==
  /\ pc = "idle"
  /\ IF self_file_object = NoStream THEN
       UNCHANGED <<self_file_entries, self_file_object,
                   self_file_object_opened_in_object, closed_by_handle>>
     ELSE
       /\ closed_by_handle' =
            (closed_by_handle \/ self_file_object_opened_in_object)
       /\ self_file_object_opened_in_object' = FALSE
       /\ self_file_entries' = NoneDict
       /\ self_file_object' = NoStream
  /\ result' = "ok"
  /\ scanned' = <<>>
  /\ UNCHANGED <<self_file_size, self_file_format, self_size, pc, caller,
                 scan_file_offset, opens, given, opener>>
  /\ UNCHANGED entryVars
  /\ UNCHANGED hasherVars
  /\ UNCHANGED <<rangeVars, decodeVars, fieldVars>>

\* CPIOArchiveFile.FileEntryExistsByPath(path)
FileEntryExistsByPath(path) ==
  IF self_file_entries.none THEN FALSE
  ELSE PathInItems(self_file_entries.items, path)

\* GetFileEntries without the test of the prefix.
GetFileEntries_unfiltered(path_prefix) == self_file_entries.items

\* CPIOArchiveFile.GetFileEntries(path_prefix): the entries in the order in
\* which the generator yields them.
GetFileEntries(path_prefix) ==
  SelectSeq(self_file_entries.items, LAMBDA e : StartsWith(e.path, path_prefix))

\* CPIOArchiveFile.GetFileEntryByPath(path): the entries found (none or one).
GetFileEntryByPath(path) ==
  IF self_file_entries.none THEN {}
  ELSE {self_file_entries.items[i] : i \in
          {k \in 1..Len(self_file_entries.items) :
             self_file_entries.items[k].path = path}}

vars == <<archiveVars, entryVars, hasherVars, rangeVars, decodeVars, fieldVars>>

Init == ArchiveInit /\ EntryIdle /\ HasherIdle /\ RangeIdle /\ DecodeIdle /\ FieldIdle

Next == Open \/ OpenFileObject \/ ReadFileEntriesStep \/ Close

Spec == Init /\ [][Next]_vars

\* ------------------------------------------------------------------------
\* CPIOArchiveFileEntry: the data reader of one file entry.
\* ------------------------------------------------------------------------

SEEK_SET == 0
SEEK_CUR == 1
SEEK_END == 2

Min(a, b) == IF a < b THEN a ELSE b

\* EntryReadSize without the limit to the requested size.
EntryReadSize_unlimited(data_size, current_offset, size) ==
  IF current_offset >= data_size THEN 0 ELSE data_size - current_offset

\* read_size of CPIOArchiveFileEntry.read, 0 when it returns b'' at once.
EntryReadSize(data_size, current_offset, size) ==
  IF current_offset >= data_size THEN 0
  ELSE Min(data_size - current_offset, size)

\* Number of bytes file_object.read(read_size) returns at file_offset of a
\* stream of stream_size bytes.
StreamRead(stream_size, file_offset, read_size) ==
  IF file_offset >= stream_size THEN 0
  ELSE Min(read_size, stream_size - file_offset)

\* The streams whose file entries are read: archives of records "a" and
\* "ab" (empty, or of 3 bytes) that end with a sentinel, and archives without the sentinel whose
\* last bytes are cut. Their catalogs are the dict values after
\* _ReadFileEntries, whether it returned or raised.
EntryRecords ==
  SeqsUpTo({[p |-> 1, s |-> 3], [p |-> 2, s |-> 0], [p |-> 2, s |-> 3]},
           MaxEntryRecords) \ {<<>>}

EntryStreams ==
  {[format |-> f, recs |-> Append(recs, [p |-> 3, s |-> 0]), cut |-> 0] :
     f \in CpioFormats, recs \in EntryRecords}
  \cup [format : CpioFormats, recs : EntryRecords, cut : 1..MaxCut]

CatalogOf(stream) ==
  ReadFileEntries(stream, SignatureFormat(SignatureData(stream)), 0,
                  ScanStart).items

\* The sizes read() is asked for; 4096 is the chunk size of the hasher.
ReadSizes == {0, 2, 4096}

\* The cursor values the model lets seek reach.
Cursors(file_entry) ==
  {-(file_entry.data_offset + 1)}
    \cup (-MaxBefore .. file_entry.data_size + MaxPastEnd)

\* The offsets seek() is asked for.
SeekOffsets(file_entry) == {-(file_entry.data_offset + 1), -1, 0, 2}

\* The file entries of a catalog, before any call. The scan has left the
\* stream after the path of the sentinel, the last bytes it read, or at the
\* offset of the header it did not find.
EntryInit ==
  /\ entry_stream \in EntryStreams
  /\ parent_size = StreamSize(entry_stream)
  /\ parent_offset =
       IF entry_stream.cut = 0
         THEN RecordStart(entry_stream, Len(entry_stream.recs))
                + SizeOf(FileEntryStruct(entry_stream.format)) + Len(TRAILER) + 1
       ELSE RecordStart(entry_stream, Len(entry_stream.recs) + 1)
  /\ readers = CatalogOf(entry_stream)
  /\ Len(readers) > 0
  /\ seeked = [e \in 1..Len(readers) |-> FALSE]
  /\ last = NoCall

\* The assignments of read(size) on file entry e, which reads read_size
\* bytes of the parent stream once it has moved it to file_offset.
EntryReadAt(e, size, read_size, file_offset) ==
  IF readers[e].current_offset >= readers[e].data_size THEN
    \* return b''
    /\ last' = [op |-> "read", e |-> e, size |-> size,
                before |-> readers[e].current_offset, returned |-> 0,
                from |-> 0, raised |-> FALSE]
    /\ UNCHANGED <<readers, parent_offset>>
  ELSE IF file_offset < 0 THEN
    \* self._file_object.seek(file_offset, os.SEEK_SET) raises
    /\ last' = [op |-> "read", e |-> e, size |-> size,
                before |-> readers[e].current_offset, returned |-> 0,
                from |-> 0, raised |-> TRUE]
    /\ UNCHANGED <<readers, parent_offset>>
  ELSE
    /\ last' = [op |-> "read", e |-> e, size |-> size,
                before |-> readers[e].current_offset,
                returned |-> StreamRead(parent_size, file_offset, read_size),
                from |-> file_offset, raised |-> FALSE]
    /\ readers' = [readers EXCEPT ![e].current_offset =
                     @ + StreamRead(parent_size, file_offset, read_size)]
    /\ parent_offset' = file_offset + StreamRead(parent_size, file_offset, read_size)

\* EntryReadPosition without the seek: the stream stays where the last
\* read of any file entry left it.
EntryReadPosition_no_seek(position, data_offset, current_offset) == position

\* The position of the parent stream after
\* self._file_object.seek(self.data_offset + self._current_offset, os.SEEK_SET).
EntryReadPosition(position, data_offset, current_offset) ==
  data_offset + current_offset

\* CPIOArchiveFileEntry.read(size)
EntryRead ==
  /\ \E e \in 1..Len(readers), size \in ReadSizes :
       EntryReadAt(e, size,
         EntryReadSize(readers[e].data_size, readers[e].current_offset, size),
         EntryReadPosition(parent_offset, readers[e].data_offset,
                           readers[e].current_offset))
  /\ UNCHANGED <<entry_stream, parent_size, seeked>>
  /\ UNCHANGED archiveVars
  /\ UNCHANGED hasherVars
  /\ UNCHANGED <<rangeVars, decodeVars, fieldVars>>

\* The cursor seek(offset, whence) assigns.
EntrySeekTarget(file_entry, offset, whence) ==
  IF whence = SEEK_CUR THEN file_entry.current_offset + offset
  ELSE IF whence = SEEK_END THEN file_entry.data_size + offset
  ELSE offset

\* CPIOArchiveFileEntry.seek(offset, whence)
EntrySeek ==
  /\ \E e \in 1..Len(readers), whence \in {SEEK_SET, SEEK_CUR, SEEK_END, 3} :
       \E offset \in SeekOffsets(readers[e]) :
         IF whence \notin {SEEK_SET, SEEK_CUR, SEEK_END} THEN
           \* raise IOError(u'Unsupported whence.')
           /\ last' = [NoCall EXCEPT !.op = "seek", !.e = e, !.raised = TRUE]
           /\ UNCHANGED <<readers, seeked>>
         ELSE
           /\ EntrySeekTarget(readers[e], offset, whence) \in Cursors(readers[e])
           /\ readers' = [readers EXCEPT ![e].current_offset =
                            EntrySeekTarget(readers[e], offset, whence)]
           /\ seeked' = [seeked EXCEPT ![e] = TRUE]
           /\ last' = [NoCall EXCEPT !.op = "seek", !.e = e]
  /\ UNCHANGED <<entry_stream, parent_size, parent_offset>>
  /\ UNCHANGED archiveVars
  /\ UNCHANGED hasherVars
  /\ UNCHANGED <<rangeVars, decodeVars, fieldVars>>

InitEntry == ArchiveInit /\ EntryInit /\ HasherIdle /\ RangeIdle /\ DecodeIdle /\ FieldIdle

SpecEntry == InitEntry /\ [][EntryRead \/ EntrySeek]_vars

\* ------------------------------------------------------------------------
\* CPIOArchiveFileHasher.HashFileEntries
\* A hashed file is a list of segments. A segment is a CPIO archive stored
\* as it is (type "cpio"), a CPIO archive stored compressed (types "gzip",
\* "bzip" and "xz": disk_size bytes on disk, which decompress to the
\* archive), or bytes that start with no known signature (type "junk").
\* Each segment starts at the end of the one before it, rounded up to a
\* multiple of 16.
\* ------------------------------------------------------------------------

\* The records of the archives in hashed files: "a" with 3 content bytes,
\* "ab" with none, "b" with 2.
HasherRecordDescriptions ==
  {[p |-> 1, s |-> 3], [p |-> 2, s |-> 0], [p |-> 4, s |-> 2]}

\* Their record lists: records of distinct paths, then the sentinel.
HasherRecords ==
  {Append(recs, [p |-> 3, s |-> 0]) :
     recs \in {r \in SeqsUpTo(HasherRecordDescriptions, MaxHasherRecords) \ {<<>>} :
                 \A i, j \in 1..Len(r) : i # j => r[i].p # r[j].p}}

\* The archive of a format that holds the one file "a".
OneFileArchive(file_format) ==
  [format |-> file_format,
   recs |-> <<[p |-> 1, s |-> 3], [p |-> 3, s |-> 0]>>, cut |-> 0]

\* The archives of the new ASCII format, one for each record list.
NewAsciiArchives == [format : {"newc"}, recs : HasherRecords, cut : {0}]

\* The archive of the new ASCII format that holds only the sentinel, with
\* the size field "-000007c": 124 bytes of header, path and padding, and a
\* declared size of -124.
SignedArchive ==
  [format |-> "newc", recs |-> <<[p |-> 3, s |-> -124]>>, cut |-> 0]

\* The archives of the segments.
HasherArchives ==
  {OneFileArchive(f) : f \in CpioFormats} \cup NewAsciiArchives
    \cup {SignedArchive}

\* What the walk reads of an archive: its number of bytes, the offsets at
\* which its records start, and the scan OpenFileObject makes of it.
ArchiveFacts(archive) ==
  [size |-> StreamSize(archive),
   starts |-> {RecordStart(archive, i) : i \in 1..Len(archive.recs)},
   scan |-> ReadFileEntries(archive, SignatureFormat(SignatureData(archive)),
                            0, ScanStart)]

\* The facts of every archive of a set, computed once.
RECURSIVE ArchiveTableOf(_)
ArchiveTableOf(archives) ==
  IF archives = {} THEN <<>>
  ELSE LET archive == CHOOSE a \in archives : TRUE
       IN (archive :> ArchiveFacts(archive))
            @@ ArchiveTableOf(archives \ {archive})

ArchiveTable == ArchiveTableOf(HasherArchives)

\* The numbers of bytes a compressed segment takes on disk: less and more
\* than the archives decompress to.
CompressedSizes == {48, 256}

\* Segments stored as they are: the one file archive in every format, and
\* every archive of the new ASCII format.
RawSegments == [type : {"cpio"}, archive : HasherArchives, disk_size : {0}]

\* Compressed segments: the one file archive under every compression and
\* size, and every archive of the new ASCII format under gzip.
CompressedSegments ==
  [type : {"gzip", "bzip", "xz"}, archive : {OneFileArchive("newc")},
   disk_size : CompressedSizes]
  \cup [type : {"gzip"}, archive : NewAsciiArchives, disk_size : {48}]

JunkSegment == [type |-> "junk", archive |-> JunkStream, disk_size |-> 16]

Segments == RawSegments \cup CompressedSegments \cup {JunkSegment}

HashedFiles == SeqsUpTo(Segments, MaxSegments) \ {<<>>}

\* Number of bytes of a segment on disk.
SegmentSize(segment) ==
  IF segment.type = "cpio" THEN ArchiveTable[segment.archive].size
  ELSE segment.disk_size

\* A segment with its place in the file.
Placed(segment, start, size) ==
  [type |-> segment.type, archive |-> segment.archive, start |-> start,
   size |-> size]

\* The segments of a file placed one after the other from start.
RECURSIVE Layout(_, _)
RECURSIVE LayoutHead(_, _, _)
Layout(segments, start) ==
  IF segments = <<>> THEN <<>>
  ELSE LayoutHead(segments, start, SegmentSize(Head(segments)))

LayoutHead(segments, start, size) ==
  <<Placed(Head(segments), start, size)>>
    \o Layout(Tail(segments),
              start + size + AlignmentPadding(start + size, 16))

\* stat_object.st_size
FileSize(file) == file[Len(file)].start + file[Len(file)].size

\* Index of the segment that starts at file_offset, 0 when there is none.
SegmentStartingAt(file, file_offset) ==
  IF \E j \in 1..Len(file) : file[j].start = file_offset
    THEN CHOOSE j \in 1..Len(file) : file[j].start = file_offset
  ELSE 0

\* Index of the segment that holds the byte at file_offset, 0 when the byte
\* is padding between two segments.
SegmentHolding(file, file_offset) ==
  IF \E j \in 1..Len(file) :
       file[j].start <= file_offset /\ file_offset < file[j].start + file[j].size
    THEN CHOOSE j \in 1..Len(file) :
       file[j].start <= file_offset /\ file_offset < file[j].start + file[j].size
  ELSE 0

\* Six bytes that start no signature: padding, compressed data, and the
\* bytes inside a record.
Opaque == <<0, 0, 0, 0, 0, 0>>

\* The first six bytes of a segment.
LeadingBytes(segment) ==
  IF segment.type = "cpio" THEN SignatureData(segment.archive)
  ELSE IF segment.type = "gzip" THEN GZIP_SIGNATURE \o <<8, 0, 0, 0>>
  ELSE IF segment.type = "bzip" THEN BZIP_SIGNATURE \o <<104, 57, 49, 65>>
  ELSE IF segment.type = "xz" THEN XZ_SIGNATURE
  ELSE SignatureData(JunkStream)

\* The six bytes found at file_offset inside segment j of a file.
BytesInSegment(segment, file_offset) ==
  IF file_offset = segment.start THEN LeadingBytes(segment)
  ELSE IF segment.type = "cpio"
          /\ (file_offset - segment.start) \in ArchiveTable[segment.archive].starts
    THEN SignatureData(segment.archive)
  ELSE Opaque

\* file_object.seek(file_offset, os.SEEK_SET); file_object.read(6)
Peek(file, file_size, file_offset) ==
  Take(IF SegmentHolding(file, file_offset) = 0 THEN Opaque
       ELSE BytesInSegment(file[SegmentHolding(file, file_offset)], file_offset),
       Min(6, file_size - file_offset))

\* file_type of HashFileEntries
HasherFileType(signature_data) ==
  IF Len(signature_data) > 2 THEN
    IF \/ Take(signature_data, 2) \in {CPIO_SIGNATURE_BINARY_BIG_ENDIAN,
                                       CPIO_SIGNATURE_BINARY_LITTLE_ENDIAN}
       \/ signature_data \in {CPIO_SIGNATURE_PORTABLE_ASCII,
                              CPIO_SIGNATURE_NEW_ASCII,
                              CPIO_SIGNATURE_NEW_ASCII_WITH_CHECKSUM}
      THEN "cpio"
    ELSE IF Take(signature_data, 2) = GZIP_SIGNATURE THEN "gzip"
    ELSE IF Take(signature_data, 2) = BZIP_SIGNATURE THEN "bzip"
    ELSE IF signature_data = XZ_SIGNATURE THEN "xz"
    ELSE NoneStr
  ELSE NoneStr

\* The line written for an unsupported file type.
ReportLine(file_offset) ==
  [kind |-> "report", path |-> <<>>, segment |-> 0, offset |-> file_offset,
   size |-> 0, at |-> file_offset]

\* The line written for a file entry: its path and, for the digest, the
\* bytes that were hashed: size bytes found at offset of the stream of a
\* segment. at is the file offset at which the segment was classified.
HashLine(file_entry, segment, size, at) ==
  [kind |-> "hash", path |-> file_entry.path, segment |-> segment,
   offset |-> file_entry.data_offset, size |-> size, at |-> at]

\* Number of bytes the loop of read(4096) calls passes to the digest, from
\* cursor current_offset on, until a read returns no data.
RECURSIVE HashedSize(_, _, _, _)
HashedSize(data_size, data_offset, current_offset, stream_size) ==
  LET file_data == StreamRead(stream_size, data_offset + current_offset,
                     EntryReadSize(data_size, current_offset, 4096))
  IN IF file_data = 0 THEN current_offset
     ELSE HashedSize(data_size, data_offset, current_offset + file_data,
                     stream_size)

\* HashFileEntries starts on a file.
HasherInit ==
  /\ hash_file \in {Layout(file, 0) : file \in HashedFiles}
  /\ hash_file_size = FileSize(hash_file)
  /\ hash_file_offset = 0
  /\ hash_file_type = NoneStr
  /\ hash_archive = NoArchive
  /\ hash_entries = <<>>
  /\ hash_pc = "peek"
  /\ hash_raised = NoneStr
  /\ output = <<>>
  /\ peeks = <<>>

\* AfterReport going on with the bytes 16 further instead of returning.
AfterReport_continue(file_offset) ==
  [pc |-> "peek", file_offset |-> file_offset + 16]

\* What follows the report of an unsupported file type: return.
AfterReport(file_offset) == [pc |-> "done", file_offset |-> file_offset]

\* The loop condition, the signature read and the classification; the model
\* follows a walk for one signature read more than the file has segments.
HashClassify ==
  /\ hash_pc = "peek"
  /\ Len(peeks) <= MaxSegments
  /\ IF hash_file_offset >= hash_file_size THEN
       /\ hash_pc' = "done"
       /\ UNCHANGED <<hash_file_offset, hash_file_type, output, peeks>>
     ELSE
       /\ peeks' = Append(peeks, hash_file_offset)
       /\ hash_file_type' =
            HasherFileType(Peek(hash_file, hash_file_size, hash_file_offset))
       /\ IF hash_file_type' = NoneStr THEN
            /\ output' = Append(output, ReportLine(hash_file_offset))
            /\ hash_pc' = AfterReport(hash_file_offset).pc
            /\ hash_file_offset' = AfterReport(hash_file_offset).file_offset
          ELSE
            /\ hash_pc' = "open"
            /\ UNCHANGED <<hash_file_offset, output>>
  /\ UNCHANGED <<hash_file, hash_file_size, hash_archive, hash_entries,
                 hash_raised>>
  /\ UNCHANGED <<archiveVars, entryVars>>
  /\ UNCHANGED <<rangeVars, decodeVars, fieldVars>>

\* cpio_archive_file once OpenFileObject has returned or raised: st is the
\* scan of the stream of a segment, of stream_size bytes.
HashOpened(segment, stream_size, st) ==
  IF st.status = "done" THEN
    /\ hash_archive' = [segment |-> segment, stream_size |-> stream_size,
                        items |-> st.items, size |-> st.file_offset]
    /\ hash_pc' = "sort"
    /\ UNCHANGED hash_raised
  ELSE
    /\ hash_pc' = "raised"
    /\ hash_raised' = "IOError"
    /\ UNCHANGED hash_archive

\* OpenFileObject(cpio_file_object): seek to position 0 of the stream, read
\* the signature, scan the records from position 0.
HashOpenFileObject(segment, stream_size, signature_data) ==
  IF SignatureFormat(signature_data) = NoneStr THEN
    \* raise IOError(u'Unsupported CPIO format.')
    /\ hash_pc' = "raised"
    /\ hash_raised' = "IOError"
    /\ UNCHANGED hash_archive
  ELSE HashOpened(segment, stream_size,
         IF SignatureFormat(signature_data) = hash_file[segment].archive.format
           THEN ArchiveTable[hash_file[segment].archive].scan
         ELSE ReadFileEntries(hash_file[segment].archive,
                              SignatureFormat(signature_data), 0, ScanStart))

\* The choice of cpio_file_object and the call of OpenFileObject. For a
\* cpio segment the stream is the file itself, whose position 0 is the
\* start of the file; for a compressed segment it is the decompressor over
\* the data range that starts at file_offset, whose position 0 is the first
\* byte of the archive compressed there.
HashOpen ==
  /\ hash_pc = "open"
  /\ IF hash_file_type = "cpio" THEN
       HashOpenFileObject(1, hash_file_size, Peek(hash_file, hash_file_size, 0))
     ELSE
       HashOpenFileObject(SegmentStartingAt(hash_file, hash_file_offset),
         ArchiveTable[hash_file[SegmentStartingAt(hash_file, hash_file_offset)].archive].size,
         SignatureData(hash_file[SegmentStartingAt(hash_file, hash_file_offset)].archive))
  /\ UNCHANGED <<hash_file, hash_file_size, hash_file_offset, hash_file_type,
                 hash_entries, output, peeks>>
  /\ UNCHANGED <<archiveVars, entryVars>>
  /\ UNCHANGED <<rangeVars, decodeVars, fieldVars>>

\* sorted(cpio_archive_file.GetFileEntries()): CPIOArchiveFileEntry defines
\* no order. With fewer than two entries nothing is compared; with two or
\* more the first comparison raises TypeError.
HashSort ==
  /\ hash_pc = "sort"
  /\ \/ /\ Len(hash_archive.items) < 2
        /\ hash_entries' = hash_archive.items
        /\ hash_pc' = "hash"
        /\ UNCHANGED hash_raised
     \/ /\ Len(hash_archive.items) >= 2
        /\ hash_pc' = "raised"
        /\ hash_raised' = "TypeError"
        /\ UNCHANGED hash_entries
  /\ UNCHANGED <<hash_file, hash_file_size, hash_file_offset, hash_file_type,
                 hash_archive, output, peeks>>
  /\ UNCHANGED <<archiveVars, entryVars>>
  /\ UNCHANGED <<rangeVars, decodeVars, fieldVars>>

\* One iteration of the for loop over the sorted file entries, or its end.
HashEntry ==
  /\ hash_pc = "hash"
  /\ IF hash_entries = <<>> THEN
       /\ hash_pc' = "advance"
       /\ UNCHANGED <<hash_entries, output>>
     ELSE
       /\ hash_entries' = Tail(hash_entries)
       /\ output' =
            IF Head(hash_entries).data_size = 0 THEN output
            ELSE Append(output,
                   HashLine(Head(hash_entries), hash_archive.segment,
                     HashedSize(Head(hash_entries).data_size,
                                Head(hash_entries).data_offset, 0,
                                hash_archive.stream_size),
                     hash_file_offset))
       /\ UNCHANGED hash_pc
  /\ UNCHANGED <<hash_file, hash_file_size, hash_file_offset, hash_file_type,
                 hash_archive, hash_raised, peeks>>
  /\ UNCHANGED <<archiveVars, entryVars>>
  /\ UNCHANGED <<rangeVars, decodeVars, fieldVars>>

\* file_offset += cpio_archive_file.size, the padding to a multiple of 16,
\* and cpio_archive_file.Close().
HashAdvance ==
  /\ hash_pc = "advance"
  /\ hash_file_offset' =
       hash_file_offset + hash_archive.size
         + AlignmentPadding(hash_file_offset + hash_archive.size, 16)
  /\ hash_archive' = NoArchive
  /\ hash_file_type' = NoneStr
  /\ hash_pc' = "peek"
  /\ UNCHANGED <<hash_file, hash_file_size, hash_entries, hash_raised, output,
                 peeks>>
  /\ UNCHANGED <<archiveVars, entryVars>>
  /\ UNCHANGED <<rangeVars, decodeVars, fieldVars>>

InitHasher == ArchiveInit /\ EntryIdle /\ HasherInit /\ RangeIdle /\ DecodeIdle /\ FieldIdle

NextHasher ==
  HashClassify \/ HashOpen \/ HashSort \/ HashEntry \/ HashAdvance

SpecHasher == InitHasher /\ [][NextHasher]_vars

\* ------------------------------------------------------------------------
\* DataRange: a window on a parent stream.
\* ------------------------------------------------------------------------

\* The size argument of read: None, or an integer.
SizeHints ==
  {[none |-> TRUE, value |-> 0]}
    \cup {[none |-> FALSE, value |-> v] : v \in -1..MaxRange}

\* The arguments SetRange and seek are called with.
RangeArguments == -1..MaxRange

\* Number of bytes file_object.read(size) returns at file_offset of a
\* stream of stream_size bytes; a negative size reads up to the end.
ParentRead(stream_size, file_offset, size) ==
  IF file_offset >= stream_size THEN 0
  ELSE IF size < 0 THEN stream_size - file_offset
  ELSE Min(size, stream_size - file_offset)

\* A DataRange over a parent stream, before any call.
RangeInit ==
  /\ dr_range_offset = 0
  /\ dr_range_size = 0
  /\ dr_current_offset = 0
  /\ dr_file_size \in 1..MaxParentSize
  /\ dr_file_offset = 0
  /\ dr_last = NoRangeCall

\* SetRangeInvalid without the test of the range size.
SetRangeInvalid_offset_only(range_offset, range_size) == range_offset < 0

\* The arguments for which SetRange raises ValueError.
SetRangeInvalid(range_offset, range_size) == range_offset < 0 \/ range_size < 0

\* DataRange.SetRange(range_offset, range_size)
RangeSetRange ==
  /\ \E range_offset \in RangeArguments, range_size \in RangeArguments :
       /\ dr_last' = [NoRangeCall EXCEPT !.op = "SetRange", !.a = range_offset,
                        !.b = range_size,
                        !.raised = SetRangeInvalid(range_offset, range_size)]
       /\ IF SetRangeInvalid(range_offset, range_size) THEN
            UNCHANGED <<dr_range_offset, dr_range_size, dr_current_offset>>
          ELSE
            /\ dr_range_offset' = range_offset
            /\ dr_range_size' = range_size
            /\ dr_current_offset' = 0
  /\ UNCHANGED <<dr_file_size, dr_file_offset>>
  /\ UNCHANGED <<archiveVars, entryVars, hasherVars, decodeVars, fieldVars>>

\* The size read asks of the parent stream.
RangeReadSize(range_size, current_offset, size) ==
  IF current_offset + (IF size.none THEN range_size ELSE size.value) > range_size
    THEN range_size - current_offset
  ELSE IF size.none THEN range_size ELSE size.value

\* RangeReadPosition without the seek: the parent stream is read where it is.
RangeReadPosition_no_seek(range_offset, current_offset, file_offset) == file_offset

\* The position read seeks the parent stream to; file_offset is the
\* position the parent stream has before.
RangeReadPosition(range_offset, current_offset, file_offset) ==
  range_offset + current_offset

\* The seek and the read of the parent stream, and what follows.
RangeReadData(size, read_size, position) ==
  /\ dr_file_offset' = position + ParentRead(dr_file_size, position, read_size)
  /\ dr_current_offset' =
       dr_current_offset + ParentRead(dr_file_size, position, read_size)
  /\ dr_last' = [op |-> "read", raised |-> FALSE,
                 a |-> IF size.none THEN 1 ELSE 0, b |-> size.value,
                 returned |-> ParentRead(dr_file_size, position, read_size),
                 from |-> position]

\* DataRange.read(size)
RangeRead ==
  /\ \E size \in SizeHints :
       IF dr_range_offset < 0 \/ dr_range_size < 0 \/ dr_current_offset < 0 THEN
         \* raise IOError
         /\ dr_last' = [NoRangeCall EXCEPT !.op = "read", !.raised = TRUE,
                          !.a = IF size.none THEN 1 ELSE 0, !.b = size.value]
         /\ UNCHANGED <<dr_current_offset, dr_file_offset>>
       ELSE IF dr_current_offset >= dr_range_size THEN
         \* return ''
         /\ dr_last' = [NoRangeCall EXCEPT !.op = "read",
                          !.a = IF size.none THEN 1 ELSE 0, !.b = size.value]
         /\ UNCHANGED <<dr_current_offset, dr_file_offset>>
       ELSE RangeReadData(size,
              RangeReadSize(dr_range_size, dr_current_offset, size),
              RangeReadPosition(dr_range_offset, dr_current_offset,
                                dr_file_offset))
  /\ UNCHANGED <<dr_range_offset, dr_range_size, dr_file_size>>
  /\ UNCHANGED <<archiveVars, entryVars, hasherVars, decodeVars, fieldVars>>

\* The offset seek computes from its arguments.
RangeSeekTarget(offset, whence) ==
  IF whence = SEEK_CUR THEN offset + dr_current_offset
  ELSE IF whence = SEEK_END THEN offset + dr_range_size
  ELSE offset

\* RangeSeekInvalid without the test.
RangeSeekInvalid_never(offset) == FALSE

\* if offset < 0: raise IOError
RangeSeekInvalid(offset) == offset < 0

\* DataRange.seek(offset, whence)
RangeSeek ==
  /\ \E offset \in RangeArguments, whence \in {SEEK_SET, SEEK_CUR, SEEK_END, 3} :
       /\ RangeSeekTarget(offset, whence) <= MaxRangeCursor
       /\ IF \/ dr_current_offset < 0
             \/ whence \notin {SEEK_SET, SEEK_CUR, SEEK_END}
             \/ RangeSeekInvalid(RangeSeekTarget(offset, whence)) THEN
            \* raise IOError
            /\ dr_last' = [NoRangeCall EXCEPT !.op = "seek", !.raised = TRUE,
                             !.a = offset, !.b = whence]
            /\ UNCHANGED dr_current_offset
          ELSE
            /\ dr_current_offset' = RangeSeekTarget(offset, whence)
            /\ dr_last' = [NoRangeCall EXCEPT !.op = "seek", !.a = offset,
                             !.b = whence]
  /\ UNCHANGED <<dr_range_offset, dr_range_size, dr_file_size, dr_file_offset>>
  /\ UNCHANGED <<archiveVars, entryVars, hasherVars, decodeVars, fieldVars>>

\* The holder of the parent stream positions it: file_object.seek of
\* HashFileEntries.
ParentSeek ==
  /\ \E file_offset \in 0..dr_file_size :
       dr_file_offset' = file_offset
  /\ dr_last' = [NoRangeCall EXCEPT !.op = "parent"]
  /\ UNCHANGED <<dr_range_offset, dr_range_size, dr_current_offset,
                 dr_file_size>>
  /\ UNCHANGED <<archiveVars, entryVars, hasherVars, decodeVars, fieldVars>>

InitRange == ArchiveInit /\ EntryIdle /\ HasherIdle /\ RangeInit /\ DecodeIdle /\ FieldIdle

NextRange == RangeSetRange \/ RangeRead \/ RangeSeek \/ ParentSeek

SpecRange == InitRange /\ [][NextRange]_vars

\* ------------------------------------------------------------------------
\* _ReadFileEntry on records of every path size and file size, decoded one
\* after the other as _ReadFileEntries does, from any first offset.
\* ------------------------------------------------------------------------

\* The archive file has a format and the first record is at some offset.
DecodeInit ==
  /\ dec_format \in CpioFormats
  /\ dec_file_offset \in 0..MaxStart
  /\ dec_last = NoDecode

\* The header and path bytes of a record with path bytes PathDatas[p] that
\* declares size content bytes.
RecordBytes(file_format, p, size) ==
  RawRecord([format |-> file_format, recs |-> <<[p |-> p, s |-> size]>>,
             cut |-> 0], 1)

\* file_entry = self._ReadFileEntry(file_offset)
\* file_offset += file_entry.size
DecodeWith(p, size, file_entry) ==
  /\ dec_last' = [start |-> dec_file_offset,
                  path_string_size |-> Len(PathDatas[p]),
                  file_size |-> size,
                  entry |-> file_entry]
  /\ dec_file_offset' = dec_file_offset + file_entry.size

\* One iteration of the loop of _ReadFileEntries on a record drawn here.
DecodeRecord ==
  /\ dec_file_offset <= MaxDecodeOffset
  /\ \E p \in DOMAIN PathDatas, size \in 0..MaxFileSize :
       DecodeWith(p, size,
         ParseFileEntry(dec_format, dec_file_offset,
                        RecordBytes(dec_format, p, size)))
  /\ UNCHANGED dec_format
  /\ UNCHANGED <<archiveVars, entryVars, hasherVars, rangeVars, fieldVars>>

InitDecode == ArchiveInit /\ EntryIdle /\ HasherIdle /\ RangeIdle /\ DecodeInit /\ FieldIdle

SpecDecode == InitDecode /\ [][DecodeRecord]_vars

\* ------------------------------------------------------------------------
\* int(field, base) on the fields of the textual headers: fields that an
\* archiver wrote, and fields of any bytes.
\* ------------------------------------------------------------------------

\* The bytes of the fields that no archiver wrote: "0", "1", "7", "8", "f",
\* "g", space, "+", "-", "_", "x" and "o".
FieldBytes == {48, 49, 55, 56, 102, 103, 32, 43, 45, 95, 120, 111}

\* The fields an archiver writes in a base: the zero-padded digit string of
\* every integer that fits the width.
WrittenFields(base) ==
  UNION {{[n |-> n, string |-> FormatDigits(n, base, width)] :
            n \in {k \in 0..MaxFieldValue : k < base ^ width}} :
         width \in 1..MaxFieldWidth}

\* The fields of any bytes: n is NoneInt, no integer was written.
OtherFields ==
  UNION {{[n |-> NoneInt, string |-> string] : string \in [1..width -> FieldBytes]} :
           width \in 1..MaxFieldWidth}

\* A field of a header in base 8 or 16; int() has not been called.
FieldInit ==
  /\ fld_base \in {8, 16}
  /\ fld_input \in WrittenFields(fld_base) \cup OtherFields
  /\ fld_result = [done |-> FALSE, ok |-> FALSE, value |-> 0]

\* int(file_entry_struct.<field>, base)
DecodeField ==
  /\ ~fld_result.done
  /\ fld_result' = [done |-> TRUE,
                    ok |-> PythonInt(fld_input.string, fld_base).ok,
                    value |-> PythonInt(fld_input.string, fld_base).value]
  /\ UNCHANGED <<fld_base, fld_input>>
  /\ UNCHANGED <<archiveVars, entryVars, hasherVars, rangeVars, decodeVars>>

InitField == ArchiveInit /\ EntryIdle /\ HasherIdle /\ RangeIdle /\ DecodeIdle /\ FieldInit

SpecField == InitField /\ [][DecodeField]_vars

\* ------------------------------------------------------------------------
\* Properties of the catalog.
\* ------------------------------------------------------------------------

\* The path stored in record i of a stream.
RecordPath(stream, i) == PartitionAtNul(PathDatas[stream.recs[i].p])

\* Index of the first record of a stream with the given path, 0 if none.
FirstRecordWithPath(stream, path) ==
  LET found == {i \in 1..Len(stream.recs) : RecordPath(stream, i) = path}
  IN IF found = {} THEN 0
     ELSE CHOOSE i \in found : \A j \in found : i <= j

\* The distinct paths of records 1..n of a stream, in first-seen order.
RECURSIVE FirstSeenPaths(_, _)
FirstSeenPaths(stream, n) ==
  IF n = 0 THEN <<>>
  ELSE LET before == FirstSeenPaths(stream, n - 1)
           path == RecordPath(stream, n)
       IN IF \E i \in 1..Len(before) : before[i] = path THEN before
          ELSE Append(before, path)

PathsOf(entries) == [i \in 1..Len(entries) |-> entries[i].path]

\* The last open call succeeded and the archive file is open.
OpenSucceeded ==
  pc = "idle" /\ result = "ok" /\ self_file_object # NoStream

\* The scan of the open archive file ended at a sentinel record.
ScanEndedAtSentinel ==
  /\ OpenSucceeded
  /\ Len(scanned) > 0
  /\ scanned[Len(scanned)].path = TRAILER

\* The path prefixes GetFileEntries is asked for: "", "a", "ab", "b".
PathPrefixes == {<<>>, <<97>>, <<97, 98>>, <<98>>}

\* C1: for an archive of records followed by a sentinel, after a successful
\* open the size of the archive file is the offset that follows the record
\* of the (first) sentinel.
C1_SizeIsOffsetAfterSentinel ==
  (OpenSucceeded /\ FirstRecordWithPath(self_file_object, TRAILER) > 0)
    => self_size = RecordStart(self_file_object,
                     FirstRecordWithPath(self_file_object, TRAILER) + 1)

C3_FirstOccurrenceWins ==
  ~self_file_entries.none =>
    LET items == self_file_entries.items
        stream == self_file_object
    IN /\ \A i, j \in 1..Len(items) : items[i].path = items[j].path => i = j
       /\ \A i \in 1..Len(items) :
            LET k == FirstRecordWithPath(stream, items[i].path) IN
            /\ k > 0
            /\ items[i].inode_number = k
            /\ items[i].user_identifier = 1000 + k
            /\ items[i].group_identifier = 100 + k
            /\ items[i].modification_time = 65536 + k
            /\ items[i].mode = 33188
            /\ items[i].data_size = stream.recs[k].s
            /\ items[i].data_offset = scanned[k].data_offset
            /\ items[i].size = scanned[k].size
            /\ items[i].data_offset + items[i].data_size <= RecordStart(stream, k + 1)
            /\ items[i].data_offset >= RecordStart(stream, k)

\* Reached: the scan has decoded a second record of a path that is in the
\* catalog.
C3_Witness ==
  /\ ~self_file_entries.none
  /\ \E j, k \in 1..Len(scanned) :
       /\ j < k
       /\ scanned[j].path = scanned[k].path
       /\ PathInItems(self_file_entries.items, scanned[k].path)

\* C4: the scan stops at the first sentinel record: the sentinel is never in
\* the catalog, a sentinel is the last record a scan decodes, the records
\* decoded from a stream that holds a sentinel are its records up to and
\* including the first sentinel, in their order, and every catalogued entry
\* comes from a record before it.
C4_StopsAtSentinel ==
  /\ ~FileEntryExistsByPath(TRAILER)
  /\ \A j \in 1..Len(scanned) :
       /\ scanned[j].inode_number \in 1..Len(self_file_object.recs)
       /\ scanned[j].path = TRAILER => (j = Len(scanned) /\ pc = "idle")
  /\ LET t == FirstRecordWithPath(self_file_object, TRAILER) IN
     t > 0 =>
       /\ Len(scanned) <= t
       /\ \A j \in 1..Len(scanned) : scanned[j].inode_number = j
       /\ \A i \in 1..Len(self_file_entries.items) :
            self_file_entries.items[i].inode_number < t

\* Reached: a scan ended at a sentinel that is followed by more records.
C4_Witness ==
  /\ ScanEndedAtSentinel
  /\ FirstRecordWithPath(self_file_object, TRAILER) < Len(self_file_object.recs)

\* ------------------------------------------------------------------------
\* Properties of the file entry data reader.
\* ------------------------------------------------------------------------

\* C5: a read(size) with size >= 0 at cursor c >= 0 of an entry of content
\* length L returns at most min(size, L - c) bytes, nothing when c >= L, and
\* advances the cursor by the number of bytes returned; reads alone, from
\* cursor 0, never take the cursor (the total returned) past L.
C5_ReadWithinLength ==
  /\ (last.op = "read" /\ last.before >= 0) =>
       LET L == readers[last.e].data_size IN
       /\ ~last.raised
       /\ last.returned >= 0
       /\ last.before < L => last.returned <= Min(last.size, L - last.before)
       /\ last.before >= L => last.returned = 0
       /\ readers[last.e].current_offset = last.before + last.returned
  /\ \A e \in 1..Len(readers) :
       ~seeked[e] =>
         /\ readers[e].current_offset >= 0
         /\ readers[e].current_offset <= readers[e].data_size

\* Reached: a read asked for more than what remains, from a cursor inside
\* the content, returned exactly what remains.
C5_Witness ==
  /\ last.op = "read"
  /\ last.before > 0
  /\ last.before < readers[last.e].data_size
  /\ last.size > readers[last.e].data_size - last.before
  /\ last.returned = readers[last.e].data_size - last.before

\* C6: every byte a read fetches from the parent stream lies at an absolute
\* position inside [data_offset, data_offset + data_size).
C6_FetchInsideWindow ==
  (last.op = "read" /\ last.returned > 0) =>
    /\ last.from >= readers[last.e].data_offset
    /\ last.from + last.returned
         <= readers[last.e].data_offset + readers[last.e].data_size

\* ------------------------------------------------------------------------
\* Properties of the hashing walk.
\* ------------------------------------------------------------------------

\* The catalog of a segment, its entries with content, and the positions of
\* the hash lines of the output that were read from a segment.
SegmentCatalog(j) == CatalogOf(hash_file[j].archive)

EntriesWithContent(items) == SelectSeq(items, LAMBDA e : e.data_size # 0)

LinesOfSegment(j) ==
  {i \in 1..Len(output) : output[i].kind = "hash" /\ output[i].segment = j}

\* C7: the hash lines of one segment come out in ascending path order, the
\* lines of a segment classified earlier before those of one classified
\* later, and a catalog of two or more entries is sorted without failure.
C7_AscendingPathOrder ==
  /\ \A i, j \in 1..Len(output) :
       (i < j /\ output[i].kind = "hash" /\ output[j].kind = "hash") =>
         /\ output[i].at <= output[j].at
         /\ output[i].at = output[j].at =>
              StrLess(output[i].path, output[j].path)
  /\ hash_raised # "TypeError"

\* C8: the catalog built for a cpio segment classified at file_offset holds
\* the entries of the segment that starts there, each with its content at a
\* file position at or after file_offset.
C8_RawSegmentDecodedAtItsOffset ==
  /\ (hash_file_type = "cpio" /\ hash_pc \in {"sort", "hash", "advance"}) =>
       /\ hash_archive.segment = SegmentStartingAt(hash_file, hash_file_offset)
       /\ \A i \in 1..Len(hash_archive.items) :
            hash_archive.items[i].data_offset >= hash_file_offset
  /\ ~(hash_file_type = "cpio" /\ hash_raised = "IOError")

\* The hashed file is two gzip segments of archives of the new ASCII format.
TwoGzipNewAscii ==
  /\ Len(hash_file) = 2
  /\ \A j \in 1..2 :
       hash_file[j].type = "gzip" /\ hash_file[j].archive.format = "newc"

\* C9: on such a file the second signature is read at the start of the
\* second segment, and when the walk has ended the output holds a hash line
\* for every entry with content of both segments, those of the first segment
\* first.
C9_TwoGzipSegments ==
  TwoGzipNewAscii =>
    /\ Len(peeks) >= 2 => peeks[2] = hash_file[2].start
    /\ hash_pc = "done" =>
         /\ \A j \in 1..2 :
              \A k \in 1..Len(EntriesWithContent(SegmentCatalog(j))) :
                \E i \in LinesOfSegment(j) :
                  output[i].path = EntriesWithContent(SegmentCatalog(j))[k].path
         /\ \A i \in LinesOfSegment(1), k \in LinesOfSegment(2) : i < k

\* The signature data matches none of the signatures.
MatchesNoSignature(signature_data) ==
  /\ Take(signature_data, 2) \notin
       {CPIO_SIGNATURE_BINARY_BIG_ENDIAN, CPIO_SIGNATURE_BINARY_LITTLE_ENDIAN,
        GZIP_SIGNATURE, BZIP_SIGNATURE}
  /\ signature_data \notin
       {CPIO_SIGNATURE_PORTABLE_ASCII, CPIO_SIGNATURE_NEW_ASCII,
        CPIO_SIGNATURE_NEW_ASCII_WITH_CHECKSUM, XZ_SIGNATURE}

\* C10: when the signature data read at the current offset matches no
\* signature, the walk writes the report and returns; a report is the last
\* line of the output, written by a walk that has ended; and a step only
\* ever appends one line to the output, so that the lines written before
\* the report stay as they were.
C10_ReportStopsTheWalk ==
  /\ [](\A i \in 1..Len(output) :
          output[i].kind = "report" => (i = Len(output) /\ hash_pc = "done"))
  /\ [][(/\ hash_pc = "peek"
         /\ hash_file_offset < hash_file_size
         /\ MatchesNoSignature(Peek(hash_file, hash_file_size, hash_file_offset)))
          => (/\ output' = Append(output, ReportLine(hash_file_offset))
              /\ hash_pc' = "done")]_vars
  /\ [][\/ output' = output
        \/ /\ Len(output') = Len(output) + 1
           /\ SubSeq(output', 1, Len(output)) = output]_vars

\* Reached: a report written after the hash line of an earlier segment.
C10_Witness ==
  /\ hash_pc = "done"
  /\ Len(output) >= 2
  /\ output[Len(output)].kind = "report"
  /\ output[1].kind = "hash"
  /\ output[1].at < output[Len(output)].at

\* The lines of the output written for the segment classified at file
\* offset at that give a path.
LinesFor(at, path) ==
  {i \in 1..Len(output) :
     output[i].kind = "hash" /\ output[i].at = at /\ output[i].path = path}

\* C11: once the walk is through with the catalog of a segment (the for
\* loop has ended, or the walk has ended with an exception), the output
\* holds no line for a catalogued entry without content and exactly one
\* line for every catalogued entry with content.
C11_OneLinePerEntryWithContent ==
  (hash_pc \in {"advance", "raised"} /\ hash_archive # NoArchive) =>
    \A i \in 1..Len(hash_archive.items) :
      Cardinality(LinesFor(hash_file_offset, hash_archive.items[i].path))
        = IF hash_archive.items[i].data_size = 0 THEN 0 ELSE 1

\* ------------------------------------------------------------------------
\* Properties of the DataRange.
\* ------------------------------------------------------------------------

\* C12: a SetRange call with a negative offset or a negative size raises and
\* leaves range offset, range size and cursor as they were; with both
\* arguments at least 0 it sets the range and puts the cursor at 0.
C12_SetRangeChecksArguments ==
  [][dr_last'.op = "SetRange" =>
       IF dr_last'.a < 0 \/ dr_last'.b < 0 THEN
         /\ dr_last'.raised
         /\ dr_range_offset' = dr_range_offset
         /\ dr_range_size' = dr_range_size
         /\ dr_current_offset' = dr_current_offset
       ELSE
         /\ ~dr_last'.raised
         /\ dr_range_offset' = dr_last'.a
         /\ dr_range_size' = dr_last'.b
         /\ dr_current_offset' = 0]_vars

\* Reached: SetRange raised for a negative size on a DataRange that has a
\* range and a cursor inside it.
C12_Witness ==
  /\ dr_last.op = "SetRange"
  /\ dr_last.raised
  /\ dr_last.a >= 0
  /\ dr_last.b < 0
  /\ dr_range_offset > 0
  /\ dr_current_offset > 0

\* C13: a read that returns gives at most size bytes when a size is given,
\* all the bytes that remain in the range when none is given, nothing when
\* the cursor is at or past the range size, and every byte it returns comes
\* from a position of the parent stream inside
\* [range offset, range offset + range size).
C13_ReadInsideRange ==
  (dr_last.op = "read" /\ ~dr_last.raised) =>
    /\ (dr_last.a = 0 /\ dr_last.b >= 0) => dr_last.returned <= dr_last.b
    /\ dr_current_offset - dr_last.returned >= dr_range_size =>
         dr_last.returned = 0
    /\ (dr_last.a = 1 /\ dr_current_offset - dr_last.returned < dr_range_size) =>
         dr_last.returned =
           ParentRead(dr_file_size,
             dr_range_offset + dr_current_offset - dr_last.returned,
             dr_range_size - (dr_current_offset - dr_last.returned))
    /\ dr_last.returned > 0 =>
         /\ dr_last.from >= dr_range_offset
         /\ dr_last.from + dr_last.returned <= dr_range_offset + dr_range_size

\* C14: a seek with a supported whence raises and leaves the cursor as it
\* was when the resulting position is negative, and otherwise sets the cursor
\* to the resulting position; the cursor is never negative.
C14_SeekRejectsNegative ==
  /\ [](dr_current_offset >= 0)
  /\ [][(dr_last'.op = "seek" /\ dr_last'.b \in {SEEK_SET, SEEK_CUR, SEEK_END}) =>
          LET position ==
                IF dr_last'.b = SEEK_SET THEN dr_last'.a
                ELSE IF dr_last'.b = SEEK_CUR THEN dr_current_offset + dr_last'.a
                ELSE dr_range_size + dr_last'.a
          IN IF position < 0
               THEN dr_last'.raised /\ dr_current_offset' = dr_current_offset
             ELSE ~dr_last'.raised /\ dr_current_offset' = position]_vars

\* Reached: a seek relative to the end raised, with the cursor past 0.
C14_Witness ==
  /\ dr_last.op = "seek"
  /\ dr_last.raised
  /\ dr_last.b = SEEK_END
  /\ dr_current_offset > 0

\* C15 as claimed: a read or a seek of the DataRange leaves the position of
\* the parent stream as it was before the call.
C15_ParentPositionRestored ==
  [][dr_last'.op \in {"read", "seek"} => dr_file_offset' = dr_file_offset]_vars

\* C15 amended: a seek leaves the position of the parent stream as it was;
\* so does a read that raises or that finds the cursor at or past the range
\* size; any other read leaves the parent stream at the range offset plus
\* the cursor the DataRange has after the read.
C15_ParentPositionFollowsRead ==
  [][/\ dr_last'.op = "seek" => dr_file_offset' = dr_file_offset
     /\ dr_last'.op = "read" =>
          IF dr_last'.raised \/ dr_current_offset >= dr_range_size
            THEN dr_file_offset' = dr_file_offset
          ELSE dr_file_offset' = dr_range_offset + dr_current_offset']_vars

\* Reached: a read returned data of a range that starts past 0 and left the
\* parent stream after the last byte read.
C15_Witness ==
  /\ dr_last.op = "read"
  /\ dr_last.returned > 0
  /\ dr_range_offset > 0
  /\ dr_file_offset = dr_range_offset + dr_current_offset

\* ------------------------------------------------------------------------
\* Properties of OpenFileObject and Close (specification Spec).
\* ------------------------------------------------------------------------

\* The format the leading bytes of a stream stand for: the first two bytes
\* for the binary formats, the six digits for the ASCII formats.
FormatOfLeadingBytes(stream) ==
  LET lead == SignatureData(stream) IN
  IF Len(lead) >= 2 /\ lead[1] = 113 /\ lead[2] = 199 THEN "bin-big-endian"
  ELSE IF Len(lead) >= 2 /\ lead[1] = 199 /\ lead[2] = 113 THEN "bin-little-endian"
  ELSE IF lead = <<48, 55, 48, 55, 48, 55>> THEN "odc"
  ELSE IF lead = <<48, 55, 48, 55, 48, 49>> THEN "newc"
  ELSE IF lead = <<48, 55, 48, 55, 48, 50>> THEN "crc"
  ELSE NoneStr

\* The same for the streams of at least 3 bytes; no format for a shorter one.
FormatOfLongerStream(stream) ==
  IF Len(SignatureData(stream)) < 3 THEN NoneStr
  ELSE FormatOfLeadingBytes(stream)

\* What a call of Open or OpenFileObject on a handle that holds no stream
\* has done when the format it should select is file_format: selected it and
\* taken the stream, or failed leaving no stream and no entry.
OpenSelected(file_format) ==
  IF file_format # NoneStr
    THEN /\ self_file_format' = file_format
         /\ self_file_object' = given'
         /\ result' = "running"
  ELSE /\ result' = "error"
       /\ self_file_format' = NoneStr
       /\ self_file_object' = NoStream
       /\ self_file_entries'.items = <<>>
       /\ pc' = "idle"

\* C16 as stated: the format is selected from the leading bytes alone (two
\* bytes for the binary formats, six for the ASCII formats), and for every
\* other stream the open fails, catalogues nothing and leaves the handle
\* not open.
C16_FormatFromLeadingBytes ==
  [][(opens' = opens + 1 /\ self_file_object = NoStream) =>
       OpenSelected(FormatOfLeadingBytes(given'))]_vars

\* C16 amended: the same selection for the streams of at least 3 bytes; the
\* open of every other stream, the streams of fewer than 3 bytes included,
\* fails with the format unset, catalogues nothing and leaves the handle
\* not open.
C16_FormatFromSignature ==
  [][(opens' = opens + 1 /\ self_file_object = NoStream) =>
       OpenSelected(FormatOfLongerStream(given'))]_vars

\* A stream of 2 bytes that are a binary signature has been refused, and so
\* has a stream of the digits of no signature.
C16_Witness ==
  /\ result = "error"
  /\ self_file_object = NoStream
  /\ self_file_format = NoneStr
  /\ given \in TruncatedStreams
  /\ SignatureData(given) = CPIO_SIGNATURE_BINARY_BIG_ENDIAN

\* A call of Close: the only step of an idle handle that is no call of Open
\* or OpenFileObject.
CloseStep == pc = "idle" /\ opens' = opens

\* C17: Close closes the file of a handle that opened it itself (Open); a
\* stream given by the caller (OpenFileObject) is never closed by the handle,
\* at any step; after Close the handle holds no stream and no catalog; a
\* Close of a handle that holds no stream changes nothing of the handle.
C17_ClosesTheFileItOpened ==
  /\ [](opener = "OpenFileObject" => ~closed_by_handle)
  /\ [][CloseStep =>
         /\ self_file_object' = NoStream
         /\ self_file_entries' = NoneDict
         /\ (self_file_object # NoStream /\ opener = "Open") => closed_by_handle'
         /\ self_file_object = NoStream =>
              UNCHANGED <<self_file_entries, self_file_object,
                          self_file_object_opened_in_object, self_file_size,
                          self_file_format, self_size, closed_by_handle>>]_vars

\* ------------------------------------------------------------------------
\* Properties of the decoded records (specification SpecDecode).
\* ------------------------------------------------------------------------

\* The size of the header of a format.
HeaderSize(file_format) ==
  IF file_format \in {"bin-big-endian", "bin-little-endian"} THEN 26
  ELSE IF file_format = "odc" THEN 76
  ELSE 110

\* The offset that follows the header and the path of the last record.
OffsetAfterPath ==
  dec_last.start + HeaderSize(dec_format) + dec_last.path_string_size

\* The number of bytes between the path and the content of the last record.
PathPaddingFound == dec_last.entry.data_offset - OffsetAfterPath

\* C18: the path padding is 0 or 1 for the binary formats and makes the
\* offset that follows header, path and padding even; it is 0..3 for newc
\* and crc and makes that offset a multiple of 4; it is 0 for odc. The offset
\* is counted from the start of the archive.
C18_PathPaddingAligns ==
  dec_last.entry.ok =>
    IF dec_format \in {"bin-big-endian", "bin-little-endian"}
      THEN /\ PathPaddingFound \in {0, 1}
           /\ (OffsetAfterPath + PathPaddingFound) % 2 = 0
    ELSE IF dec_format \in {"newc", "crc"}
      THEN /\ PathPaddingFound \in 0..3
           /\ (OffsetAfterPath + PathPaddingFound) % 4 = 0
    ELSE PathPaddingFound = 0

\* A binary record that starts at an odd offset, after another record, has
\* been decoded with 1 byte of path padding.
C18_Witness ==
  /\ dec_last.entry.ok
  /\ dec_format = "bin-little-endian"
  /\ dec_last.start >= 26
  /\ dec_last.start % 2 = 1
  /\ PathPaddingFound = 1

\* The padding that follows the content of the last record: for newc and crc
\* the fewest bytes that bring the offset to a multiple of 4, else none.
TrailingPadding ==
  IF dec_format \in {"newc", "crc"}
    THEN CHOOSE k \in 0..3 :
           (dec_last.entry.data_offset + dec_last.file_size + k) % 4 = 0
  ELSE 0

\* C19: total record size = header size + path size + path padding + file
\* size + trailing padding; content offset = record start + header size +
\* path size + path padding; the trailing padding is 0..3 bytes to a
\* multiple of 4 for newc and crc and 0 for the other formats; the next
\* record is decoded at record start + total record size.
C19_RecordSize ==
  dec_last.entry.ok =>
    /\ PathPaddingFound >= 0
    /\ dec_last.entry.data_size = dec_last.file_size
    /\ dec_last.entry.size =
         HeaderSize(dec_format) + dec_last.path_string_size + PathPaddingFound
           + dec_last.file_size + TrailingPadding
    /\ dec_file_offset = dec_last.start + dec_last.entry.size

\* A new ASCII record with content and 1..3 bytes of trailing padding has
\* been decoded after another record.
C19_Witness ==
  /\ dec_last.entry.ok
  /\ dec_format = "newc"
  /\ dec_last.start >= 110
  /\ dec_last.file_size > 0
  /\ TrailingPadding > 0

\* ------------------------------------------------------------------------
\* Properties of the catalogued content (specification Spec).
\* ------------------------------------------------------------------------

\* C20: after a scan that succeeded, content offset + content length of
\* every catalogued entry is at most the length of the stream, also when
\* the last record of the stream declares more content than remains.
C20_ContentInsideStream ==
  (pc = "idle" /\ result = "ok" /\ self_file_object # NoStream) =>
    \A i \in 1..Len(self_file_entries.items) :
      self_file_entries.items[i].data_offset
        + self_file_entries.items[i].data_size <= StreamSize(self_file_object)

\* ------------------------------------------------------------------------
\* Properties of the textual fields (specification SpecField).
\* ------------------------------------------------------------------------

\* Every byte of s is a digit of the base.
IsDigitString(s, base) ==
  \A i \in 1..Len(s) : DigitValue(s[i]) >= 0 /\ DigitValue(s[i]) < base

\* C21: decoding the zero-padded fixed-width digit string of an integer that
\* fits the width yields that integer, in base 8 and in base 16; and a field
\* that is not a digit string of the base makes the decoding fail, it does
\* not yield a number.
C21_FieldRoundTrip ==
  fld_result.done =>
    /\ fld_input.n # NoneInt =>
         fld_result.ok /\ fld_result.value = fld_input.n
    /\ ~IsDigitString(fld_input.string, fld_base) => ~fld_result.ok

\* ------------------------------------------------------------------------
\* Properties of the offsets of the walk (specification SpecHasher).
\* ------------------------------------------------------------------------

\* The least multiple of 16 that is at least n.
RoundedUpTo16(n) == CHOOSE m \in n..(n + 15) : m % 16 = 0

\* C22: after each segment the next offset is the previous offset plus the
\* size of the segment's archive, rounded up to a multiple of 16; every
\* signature read is at a multiple of 16, and the offset strictly increases
\* from one signature read to the next, so that the walk ends.
C22_OffsetAdvances ==
  /\ [](\A i \in 1..Len(peeks) :
          /\ peeks[i] % 16 = 0
          /\ \A j \in 1..Len(peeks) : i < j => peeks[i] < peeks[j])
  /\ [][(hash_pc = "advance" /\ hash_pc' = "peek") =>
         hash_file_offset' = RoundedUpTo16(hash_file_offset + hash_archive.size)]_vars

\* ------------------------------------------------------------------------
\* Properties of the offsets of the scan (specification Spec).
\* ------------------------------------------------------------------------

\* C23: the scan starts at offset 0; each record that does not end it moves
\* the offset forward by its total size, which is at least the size of the
\* header; and the scan ends at the sentinel, with the offset at or past the
\* length of the stream, or with a failure. The offset strictly increases,
\* so that no finite stream makes the scan loop for ever.
C23_ScanAdvances ==
  /\ [](pc = "scanning" /\ scanned = <<>> => scan_file_offset = 0)
  /\ [][(pc = "scanning" /\ pc' = "scanning") =>
         /\ scan_file_offset' > scan_file_offset
         /\ scan_file_offset' = scan_file_offset + scanned'[Len(scanned')].size
         /\ scanned'[Len(scanned')].size >= HeaderSize(self_file_format)]_vars
  /\ [][(pc = "scanning" /\ pc' = "idle") =>
         \/ result' = "error"
         \/ scanned' # <<>> /\ IsSentinel(scanned'[Len(scanned')].path)
         \/ self_size' >= StreamSize(self_file_object)]_vars

\* The open operation has just failed inside the scan that OpenFileObject
\* started.
ScanFailed ==
  /\ pc = "scanning" /\ opener = "OpenFileObject"
  /\ pc' = "idle" /\ result' = "error"

\* C24: when a header decode fails during the scan started by OpenFileObject,
\* the handle is left as a handle that was never opened: it holds no stream,
\* so that a later OpenFileObject is not rejected as already open, and no
\* entry decoded before the failure can be looked up by its path.
C24_FailedOpenLeavesNothing ==
  [][ScanFailed =>
       /\ self_file_object' = NoStream
       /\ self_file_entries'.none
       /\ (\A i \in 1..Len(scanned) :
             /\ ~FileEntryExistsByPath(scanned[i].path)
             /\ GetFileEntryByPath(scanned[i].path) = {})']_vars


\* A read has just been made on file entry e.
ReadOn(e) == last'.op = "read" /\ last'.e = e /\ last' # last

\* C25: the file entries of one archive share the parent stream and keep
\* private cursors. A read on an entry that is only read, from cursor 0,
\* returns the bytes of its content that follow those already returned,
\* as many as a read at that cursor returns whatever was read from the other
\* entries in between; and a read on an entry changes neither the cursor of
\* another entry nor the metadata of any entry.
C25_PrivateCursors ==
  /\ []((last.op = "read" /\ ~seeked[last.e]) =>
          LET file_entry == readers[last.e] IN
          /\ ~last.raised
          /\ last.returned =
               StreamRead(parent_size, file_entry.data_offset + last.before,
                 EntryReadSize(file_entry.data_size, last.before, last.size))
          /\ file_entry.current_offset = last.before + last.returned
          /\ last.returned > 0 => last.from = file_entry.data_offset + last.before)
  /\ [][\A e \in 1..Len(readers) : ReadOn(e) =>
          /\ \A other \in 1..Len(readers) \ {e} : readers'[other] = readers[other]
          /\ readers' = [readers EXCEPT ![e].current_offset =
                           readers'[e].current_offset]]_vars

\* Reached: a read in the middle of the content of one entry, which follows
\* reads of another entry that left the parent stream elsewhere, in the
\* middle of that entry's content.
C25_Witness ==
  /\ last.op = "read" /\ last.before > 0 /\ last.returned > 0
  /\ \E other \in 1..Len(readers) :
       /\ other # last.e
       /\ ~seeked[other] /\ ~seeked[last.e]
       /\ readers[other].current_offset > 0
       /\ readers[other].current_offset < readers[other].data_size

====
